---------------------------- MODULE Spec2Model ----------------------------
(***************************************************************************)
(* A model of vFXT/cluster.py (class Cluster): the per-node fan-out        *)
(* executor, the health-check and join-wait poll loops, the activity poll  *)
(* that follows an asynchronous management call, and the phases of         *)
(* Cluster.create with their cleanup handlers.                             *)
(*                                                                         *)
(* One behaviour follows one call of one operation: Init picks the         *)
(* operation (op) and its arguments, and the actions of that operation     *)
(* then run it to its end.  The management channel, the backend and the    *)
(* clock are the environment: every remote answer, every failure and every *)
(* latency is drawn from a small set.                                      *)
(***************************************************************************)
EXTENDS Integers, Sequences, FiniteSets, TLC

VARIABLES
    op,     \* the operation this behaviour runs
    now,    \* int(time.time()): the wall clock in whole seconds
    pcall,  \* parallel_call: the main thread, its workers and failq
    hc,     \* wait_for_healthcheck
    nj,     \* wait_for_nodes_to_join
    act,    \* an activity poll (add_nodes, add_vserver, attach/remove_corefiler)
    cr,     \* Cluster.create
    an,     \* Cluster.add_nodes
    lc,     \* Cluster.stop, shelve, unshelve, start, destroy
    ld,     \* Cluster.load, reload and the constructor's load_cluster_information
    al,     \* the address allocation of Cluster.add_nodes
    cf,     \* Cluster.cluster_config
    vn,     \* Cluster.valid_cluster_name
    ex,     \* Cluster.export and the constructor called on what it returns
    xr,     \* Cluster.xmlrpc
    rn      \* set_node_naming_policy: the two rename passes

vars == <<op, now, pcall, hc, nj, act, cr, an, lc, ld, al, cf, vn, ex, xr, rn>>

Ops == {"parallel_call", "wait_for_healthcheck", "wait_for_nodes_to_join",
        "activity", "create", "add_nodes",
        "stop", "shelve", "unshelve", "start", "destroy",
        "load", "reload", "__init__",
        "add_nodes addresses",
        "cluster_config",
        "valid_cluster_name",
        "export",
        "xmlrpc",
        "set_node_naming_policy"}

(***************************************************************************)
(* Bounds of the model.                                                    *)
(***************************************************************************)
MaxNodes == 4       \* most service instances handed to parallel_call
MaxCluster == 3     \* most nodes of a cluster being created or joined
MaxRetries == 3     \* largest retry budget passed to a poll loop
MaxDuration == 3    \* largest duration asked of wait_for_healthcheck
MaxLatency == 1     \* most seconds one management-channel call takes
MaxSleep == 2       \* most seconds one _sleep() takes (at least one)
MaxOverrun == 1     \* iterations followed once a loop has outrun its budget
MaxExisting == 2    \* most nodes of the cluster add_nodes is called on
MaxCount == 2       \* most nodes one add_nodes call is asked to add
MaxLicensed == 3    \* largest licensed maximum the remote reports
MaxVservers == 1    \* most vservers whose range add_nodes extends
MaxPolls == 1       \* most getActivity polls of one range removal
MaxLcNodes == 2     \* most nodes of a cluster that is stopped, shelved, destroyed
MaxRpcRetries == 2  \* largest service.XMLRPC_RETRIES
MaxFound == 3       \* most nodes the remote reports or the backend finds
MaxBuckets == 2     \* most buckets destroy collects
MaxPerNode == 2     \* largest clusterIPNumPerNode
MaxInUse == 3       \* most addresses in use in the cluster range or a vserver
MaxAlVservers == 2  \* most vservers of the cluster whose addresses are sized
MaxCustom == 1      \* most addresses of a range the caller supplies
MaxServers == 3     \* most DNS or NTP servers the backend reports
MaxNameLen == 3     \* longest name enumerated over the whole alphabet
MaxIds == 2         \* most instance ids of an exported cluster
MaxRenamed == 2     \* most remote nodes set_node_naming_policy lists
NameLimit == 128    \* the longest name valid_cluster_name accepts

Max(a, b) == IF a >= b THEN a ELSE b

(***************************************************************************)
(* parallel_call(serviceinstances, method): one thread per instance, all   *)
(* started, all joined, then failq drained into failed.                    *)
(***************************************************************************)
Instances == 1..MaxNodes

PcallIdle ==
    [n |-> 0, main |-> "idle", i |-> 1,
     thread |-> [k \in Instances |-> "unstarted"],
     outcome |-> [k \in Instances |-> "none"],
     failq |-> <<>>, failed |-> <<>>]

PcallInit ==
    {[PcallIdle EXCEPT !.n = k, !.main = "spawn"] : k \in 0..MaxNodes}

\* Queue.Queue.put: the queue's own mutex makes the append atomic.
q_put_overwrite(q, item) == <<item>>

q_put(q, item) == Append(q, item)

\* for si in serviceinstances: t = threading.Thread(...); t.start(); threads.append(t)
ThreadStart ==
    /\ op = "parallel_call"
    /\ pcall.main = "spawn"
    /\ pcall.i <= pcall.n
    /\ pcall' = [pcall EXCEPT !.thread[pcall.i] = "started", !.i = pcall.i + 1]
    /\ UNCHANGED <<op, now, hc, nj, act, cr, an, lc, ld, al, cf, vn, ex, xr, rn>>

\* the spawning loop is over: the joining loop begins at the first thread
SpawnDone ==
    /\ op = "parallel_call"
    /\ pcall.main = "spawn"
    /\ pcall.i > pcall.n
    /\ pcall' = [pcall EXCEPT !.main = "join", !.i = 1]
    /\ UNCHANGED <<op, now, hc, nj, act, cr, an, lc, ld, al, cf, vn, ex, xr, rn>>

\* thread_cb: the worker builds its ServiceInstance and enters the method
thread_cb_call(k) ==
    /\ op = "parallel_call"
    /\ pcall.thread[k] = "started"
    /\ pcall' = [pcall EXCEPT !.thread[k] = "invoked"]
    /\ UNCHANGED <<op, now, hc, nj, act, cr, an, lc, ld, al, cf, vn, ex, xr, rn>>

\* thread_cb: the method returns; the worker ends
thread_cb_return(k) ==
    /\ op = "parallel_call"
    /\ pcall.thread[k] = "invoked"
    /\ pcall' = [pcall EXCEPT !.thread[k] = "done", !.outcome[k] = "ok"]
    /\ UNCHANGED <<op, now, hc, nj, act, cr, an, lc, ld, al, cf, vn, ex, xr, rn>>

\* thread_cb: the method raises; the worker is in its except clause
thread_cb_raise(k) ==
    /\ op = "parallel_call"
    /\ pcall.thread[k] = "invoked"
    /\ pcall' = [pcall EXCEPT !.thread[k] = "except", !.outcome[k] = "raised"]
    /\ UNCHANGED <<op, now, hc, nj, act, cr, an, lc, ld, al, cf, vn, ex, xr, rn>>

\* thread_cb: except Exception as e: q.put((description, e)); the worker ends
thread_cb_put(k) ==
    /\ op = "parallel_call"
    /\ pcall.thread[k] = "except"
    /\ pcall' = [pcall EXCEPT !.thread[k] = "done",
                              !.failq = q_put(pcall.failq, k)]
    /\ UNCHANGED <<op, now, hc, nj, act, cr, an, lc, ld, al, cf, vn, ex, xr, rn>>

\* A join that does not wait for its thread.
ThreadJoinNoWait ==
    /\ op = "parallel_call"
    /\ pcall.main = "join"
    /\ pcall.i <= pcall.n
    /\ pcall' = [pcall EXCEPT !.i = pcall.i + 1]
    /\ UNCHANGED <<op, now, hc, nj, act, cr, an, lc, ld, al, cf, vn, ex, xr, rn>>

\* for t in threads: t.join() -- returns once thread t has ended
ThreadJoin ==
    /\ op = "parallel_call"
    /\ pcall.main = "join"
    /\ pcall.i <= pcall.n
    /\ pcall.thread[pcall.i] = "done"
    /\ pcall' = [pcall EXCEPT !.i = pcall.i + 1]
    /\ UNCHANGED <<op, now, hc, nj, act, cr, an, lc, ld, al, cf, vn, ex, xr, rn>>

\* every thread is joined: the drain loop begins
JoinDone ==
    /\ op = "parallel_call"
    /\ pcall.main = "join"
    /\ pcall.i > pcall.n
    /\ pcall' = [pcall EXCEPT !.main = "drain"]
    /\ UNCHANGED <<op, now, hc, nj, act, cr, an, lc, ld, al, cf, vn, ex, xr, rn>>

\* failed.append(failq.get_nowait())
DrainOne ==
    /\ op = "parallel_call"
    /\ pcall.main = "drain"
    /\ pcall.failq # <<>>
    /\ pcall' = [pcall EXCEPT !.failed = Append(pcall.failed, Head(pcall.failq)),
                              !.failq = Tail(pcall.failq)]
    /\ UNCHANGED <<op, now, hc, nj, act, cr, an, lc, ld, al, cf, vn, ex, xr, rn>>

\* except Queue.Empty: break; if failed: raise vFXTServiceFailure(failed)
DrainEnd ==
    /\ op = "parallel_call"
    /\ pcall.main = "drain"
    /\ pcall.failq = <<>>
    /\ pcall' = [pcall EXCEPT !.main = IF pcall.failed # <<>> THEN "raised"
                                       ELSE "returned"]
    /\ UNCHANGED <<op, now, hc, nj, act, cr, an, lc, ld, al, cf, vn, ex, xr, rn>>

PcallNext ==
    \/ ThreadStart
    \/ SpawnDone
    \/ \E k \in Instances : thread_cb_call(k)
    \/ \E k \in Instances : thread_cb_return(k)
    \/ \E k \in Instances : thread_cb_raise(k)
    \/ \E k \in Instances : thread_cb_put(k)
    \/ ThreadJoin
    \/ JoinDone
    \/ DrainOne
    \/ DrainEnd

(***************************************************************************)
(* wait_for_healthcheck(state, retries, duration, conn_retries).           *)
(***************************************************************************)
Severities == {"red", "yellow", "green"}

\* what cluster.maxActiveAlertSeverity() can give: an exception, a reply
\* without the maxCondition key, or a reply with a severity
AlertAnswers == {"failed", "nokey"} \cup Severities

\* alert.conditions(): the names of the active conditions with their severity
ConditionNames == {"c1", "c2"}
ConditionLists == [ConditionNames -> Severities \cup {"absent"}]

HcIdle ==
    [pc |-> "idle", state |-> "green", R |-> 0, retries |-> 0, duration |-> 0,
     start_time |-> 0, observed |-> 0, alertstats |-> "nokey", iter |-> 0,
     firstHold |-> -1, holdRun |-> 0, diag |-> 0, exc |-> "none",
     alert_codes |-> {}]

HcInit ==
    {[HcIdle EXCEPT !.pc = "connect", !.state = s, !.R = r, !.retries = r,
                    !.duration = d] :
        s \in Severities, r \in 0..MaxRetries, d \in 0..MaxDuration}

\* a variant without line 312: red would not accept yellow
acceptable_states_pair(state) ==
    {state, "green"}

\* acceptable_states = [state, 'green']; if state == 'red': append 'yellow'
acceptable_states(state) ==
    {state, "green"} \cup (IF state = "red" THEN {"yellow"} ELSE {})

\* xmlrpc = self.xmlrpc(conn_retries); start_time = int(time.time()); observed = 0
HcConnect ==
    /\ op = "wait_for_healthcheck"
    /\ hc.pc = "connect"
    /\ \E d \in 0..MaxLatency, ok \in BOOLEAN :
        /\ now' = now + d
        /\ hc' = IF ok
                 THEN [hc EXCEPT !.pc = "poll", !.start_time = now + d,
                                 !.observed = 0]
                 ELSE [hc EXCEPT !.pc = "raised", !.exc = "ConnectionFailure"]
    /\ UNCHANGED <<op, pcall, nj, act, cr, an, lc, ld, al, cf, vn, ex, xr, rn>>

\* one poll: the query (a failure leaves alertstats = {}), then the test of
\* maxCondition against acceptable_states; firstHold and holdRun record when
\* the current run of holding polls began and how many polls it has
HcPoll ==
    /\ op = "wait_for_healthcheck"
    /\ hc.pc = "poll"
    /\ \E d \in 0..MaxLatency, a \in AlertAnswers :
        LET t == now + d
            holds == a \in acceptable_states(hc.state)
            obs == IF holds THEN t - hc.start_time ELSE 0
        IN  /\ now' = t
            /\ hc' = [hc EXCEPT
                        !.alertstats = a,
                        !.iter = hc.iter + 1,
                        !.observed = obs,
                        !.start_time = IF holds THEN hc.start_time ELSE t,
                        !.firstHold = IF holds
                                      THEN (IF hc.holdRun = 0 THEN t
                                            ELSE hc.firstHold)
                                      ELSE -1,
                        !.holdRun = IF holds THEN hc.holdRun + 1 ELSE 0,
                        !.pc = IF holds /\ obs >= hc.duration THEN "returned"
                               ELSE "retry"]
    /\ UNCHANGED <<op, pcall, nj, act, cr, an, lc, ld, al, cf, vn, ex, xr, rn>>

\* retries -= 1; if retries == 0: (the diagnostic query and the raise)
HcRetry ==
    /\ op = "wait_for_healthcheck"
    /\ hc.pc = "retry"
    /\ hc.retries > -MaxOverrun
    /\ hc' = [hc EXCEPT !.retries = hc.retries - 1,
                        !.pc = IF hc.retries - 1 = 0 THEN "diag" ELSE "sleep"]
    /\ UNCHANGED <<op, now, pcall, nj, act, cr, an, lc, ld, al, cf, vn, ex, xr, rn>>

\* conditions = self.xmlrpc().alert.conditions(); alert_codes = [...];
\* raise vFXTStatusFailure(...) -- the query is made outside any try
HcDiag ==
    /\ op = "wait_for_healthcheck"
    /\ hc.pc = "diag"
    /\ \E d \in 0..MaxLatency :
        /\ now' = now + d
        /\ \/ \E conditions \in ConditionLists :
                hc' = [hc EXCEPT
                         !.pc = "raised", !.diag = hc.diag + 1,
                         !.exc = "StatusFailure",
                         !.alert_codes =
                             {c \in ConditionNames :
                                 /\ conditions[c] # "absent"
                                 /\ conditions[c] # hc.state}]
           \/ hc' = [hc EXCEPT !.pc = "raised", !.diag = hc.diag + 1,
                               !.exc = "ConnectionFailure"]
    /\ UNCHANGED <<op, pcall, nj, act, cr, an, lc, ld, al, cf, vn, ex, xr, rn>>

\* self._sleep(): time.sleep(self.service.POLLTIME)
HcSleep ==
    /\ op = "wait_for_healthcheck"
    /\ hc.pc = "sleep"
    /\ \E s \in 1..MaxSleep : now' = now + s
    /\ hc' = [hc EXCEPT !.pc = "poll"]
    /\ UNCHANGED <<op, pcall, nj, act, cr, an, lc, ld, al, cf, vn, ex, xr, rn>>

HcNext ==
    \/ HcConnect
    \/ HcPoll
    \/ HcRetry
    \/ HcDiag
    \/ HcSleep

(***************************************************************************)
(* wait_for_nodes_to_join(retries).                                        *)
(***************************************************************************)
NjIdle ==
    [pc |-> "idle", expected |-> 0, R |-> 0, retries |-> 0, start_time |-> 0,
     began |-> 0, found |-> 0, iter |-> 0, exc |-> "none", cause |-> "none",
     queryFailed |-> FALSE]

NjInit ==
    {[NjIdle EXCEPT !.pc = "initial", !.expected = e, !.R = r, !.retries = r] :
        e \in 1..MaxCluster, r \in 0..MaxRetries}

\* int(retries * 1.5), retries >= 0
int_retries_1_5(retries) == (3 * retries) \div 2

\* expected = len(self.nodes); if expected > len(self.xmlrpc().node.list()):
\*     start_time = int(time.time()) -- the query is made outside any try
NjInitialQuery ==
    /\ op = "wait_for_nodes_to_join"
    /\ nj.pc = "initial"
    /\ \E d \in 0..MaxLatency :
        /\ now' = now + d
        /\ \/ \E listed \in 0..MaxCluster :
                nj' = IF nj.expected > listed
                      THEN [nj EXCEPT !.pc = "poll", !.start_time = now + d,
                                      !.began = now + d]
                      ELSE [nj EXCEPT !.pc = "returned", !.found = listed]
           \/ nj' = [nj EXCEPT !.pc = "raised", !.exc = "ConnectionFailure",
                               !.cause = "initial query"]
    /\ UNCHANGED <<op, pcall, hc, act, cr, an, lc, ld, al, cf, vn, ex, xr, rn>>

\* try: found = len(self.xmlrpc().node.list())
\* except Exception: found = 1
\* if expected == found: break
NjPoll ==
    /\ op = "wait_for_nodes_to_join"
    /\ nj.pc = "poll"
    /\ nj.iter < nj.R + 1 + MaxOverrun
    /\ \E d \in 0..MaxLatency, failed \in BOOLEAN, listed \in 0..MaxCluster :
        LET found == IF failed THEN 1 ELSE listed IN
        /\ failed => listed = 0
        /\ now' = now + d
        /\ nj' = [nj EXCEPT !.found = found, !.queryFailed = failed,
                            !.iter = nj.iter + 1,
                            !.pc = IF nj.expected = found THEN "returned"
                                   ELSE "unconfigured"]
    /\ UNCHANGED <<op, pcall, hc, act, cr, an, lc, ld, al, cf, vn, ex, xr, rn>>

\* try: unjoined_status = [... self.xmlrpc().node.listUnconfiguredNodes() ...]
\*      if any(['image' in _ ...]): start_time = int(time.time()); continue
\* except Exception: (logged)
NjUnconfigured ==
    /\ op = "wait_for_nodes_to_join"
    /\ nj.pc = "unconfigured"
    /\ \E d \in 0..MaxLatency, answer \in {"failed", "image", "other"} :
        /\ now' = now + d
        /\ nj' = IF answer = "image"
                 THEN [nj EXCEPT !.pc = "poll", !.start_time = now + d]
                 ELSE [nj EXCEPT !.pc = "check"]
    /\ UNCHANGED <<op, pcall, hc, act, cr, an, lc, ld, al, cf, vn, ex, xr, rn>>

\* duration = int(time.time()) - start_time
\* taking_too_long = duration > int(retries * 1.5)
\* if retries == 0 or taking_too_long: raise vFXTConfigurationException
\* retries -= 1; if retries % 10 == 0: (log the conditions)
NjCheck ==
    /\ op = "wait_for_nodes_to_join"
    /\ nj.pc = "check"
    /\ LET duration == now - nj.start_time
           taking_too_long == duration > int_retries_1_5(nj.retries)
       IN  nj' = IF nj.retries = 0 \/ taking_too_long
                 THEN [nj EXCEPT !.pc = "raised",
                                 !.exc = "ConfigurationException",
                                 !.cause = IF nj.retries = 0 THEN "retries"
                                           ELSE "taking too long"]
                 ELSE [nj EXCEPT !.retries = nj.retries - 1,
                                 !.pc = IF (nj.retries - 1) % 10 = 0 THEN "log"
                                        ELSE "sleep"]
    /\ UNCHANGED <<op, now, pcall, hc, act, cr, an, lc, ld, al, cf, vn, ex, xr, rn>>

\* self._log_conditions(self.xmlrpc()): _log_conditions swallows the failure
\* of alert.conditions(), but the connection made for its argument is
\* outside any try
NjLog ==
    /\ op = "wait_for_nodes_to_join"
    /\ nj.pc = "log"
    /\ \E d \in 0..MaxLatency, connected \in BOOLEAN :
        /\ now' = now + d
        /\ nj' = IF connected
                 THEN [nj EXCEPT !.pc = "sleep"]
                 ELSE [nj EXCEPT !.pc = "raised", !.exc = "ConnectionFailure",
                                 !.cause = "log conditions"]
    /\ UNCHANGED <<op, pcall, hc, act, cr, an, lc, ld, al, cf, vn, ex, xr, rn>>

\* self._sleep()
NjSleep ==
    /\ op = "wait_for_nodes_to_join"
    /\ nj.pc = "sleep"
    /\ \E s \in 1..MaxSleep : now' = now + s
    /\ nj' = [nj EXCEPT !.pc = "poll"]
    /\ UNCHANGED <<op, pcall, hc, act, cr, an, lc, ld, al, cf, vn, ex, xr, rn>>

NjNext ==
    \/ NjInitialQuery
    \/ NjPoll
    \/ NjUnconfigured
    \/ NjCheck
    \/ NjLog
    \/ NjSleep

(***************************************************************************)
(* The activity poll that follows a management call returning an activity  *)
(* token, at each place of the class that has one.                         *)
(***************************************************************************)
\* add_nodes: addClusterIPs / addClientIPs (extension), removeClientIPs /
\* removeClusterIPs (reversal); add_vserver: vserver.create;
\* attach_corefiler: corefiler.create; remove_corefiler: corefiler.remove
Sites == {"add_nodes_extend", "add_nodes_undo", "add_vserver",
          "attach_corefiler", "remove_corefiler"}

\* cluster.getActivity(token): 'state' and 'status', either of which may be
\* missing from the reply
ActivityStates == {"absent", "running", "success", "failure"}
ActivityStatuses == {"absent", "in progress", "failure"}
ActivityResponses == [state : ActivityStates, status : ActivityStatuses]

NoResponse == [state |-> "absent", status |-> "absent"]

ActIdle ==
    [pc |-> "idle", site |-> "add_vserver", activity |-> "none",
     response |-> NoResponse, retries |-> 0, calls |-> 0, exc |-> "none",
     logged |-> FALSE]

ActInit ==
    {[ActIdle EXCEPT !.pc = "call", !.site = s, !.retries = r] :
        s \in Sites, r \in 0..MaxRetries}

\* activity = self.xmlrpc().<call>(...); if activity != 'success': (poll)
ActCall ==
    /\ op = "activity"
    /\ act.pc = "call"
    /\ \E token \in {"success", "token", "raised"} :
        act' = CASE token = "success" ->
                      [act EXCEPT !.pc = "done", !.activity = token]
                 [] token = "token" ->
                      [act EXCEPT !.pc = "poll", !.activity = token]
                 [] OTHER ->
                      [act EXCEPT !.pc = "raised", !.exc = "call failed"]
    /\ UNCHANGED <<op, now, pcall, hc, nj, cr, an, lc, ld, al, cf, vn, ex, xr, rn>>

\* what one pass of the poll loop does with the reply:
\*   if 'state' in response and response['state'] == 'success': break
\*   if 'status' in response and response['status'] == 'failure': raise
\*       (the reversals of add_nodes log the failure and break instead)
\*   add_vserver only: if retries == 0: raise; retries -= 1
after_response(a, r) ==
    CASE r.state = "success" ->
            [a EXCEPT !.response = r, !.pc = "done"]
      [] r.state # "success" /\ r.status = "failure" ->
            IF a.site = "add_nodes_undo"
            THEN [a EXCEPT !.response = r, !.pc = "done", !.logged = TRUE]
            ELSE [a EXCEPT !.response = r, !.pc = "raised",
                           !.exc = "ConfigurationException: failed"]
      [] OTHER ->
            IF a.site = "add_vserver"
            THEN IF a.retries = 0
                 THEN [a EXCEPT !.response = r, !.pc = "raised",
                                !.exc = "ConfigurationException: timed out"]
                 ELSE [a EXCEPT !.response = r, !.pc = "sleep",
                                !.retries = a.retries - 1]
            ELSE [a EXCEPT !.response = r, !.pc = "sleep"]

\* response = self.xmlrpc().cluster.getActivity(activity), then the tests
ActPoll ==
    /\ op = "activity"
    /\ act.pc = "poll"
    /\ act.calls < MaxRetries + 1 + MaxOverrun
    /\ \/ \E r \in ActivityResponses :
            act' = after_response([act EXCEPT !.calls = act.calls + 1], r)
       \/ act' = [act EXCEPT !.calls = act.calls + 1, !.pc = "raised",
                             !.exc = "getActivity failed"]
    /\ UNCHANGED <<op, now, pcall, hc, nj, cr, an, lc, ld, al, cf, vn, ex, xr, rn>>

\* self._sleep()
ActSleep ==
    /\ op = "activity"
    /\ act.pc = "sleep"
    /\ \E s \in 1..MaxSleep : now' = now + s
    /\ act' = [act EXCEPT !.pc = "poll"]
    /\ UNCHANGED <<op, pcall, hc, nj, cr, an, lc, ld, al, cf, vn, ex, xr, rn>>

ActNext ==
    \/ ActCall
    \/ ActPoll
    \/ ActSleep

(***************************************************************************)
(* Cluster.create(service, machine_type, name, admin_password, **options). *)
(***************************************************************************)
\* the steps of create after the backend has provisioned, in program order
Phases == <<"wait_for_service_checks", "wait_for_nodes_to_join",
            "wait_for_healthcheck", "allow_node_join", "set_node_naming_policy",
            "enable_ha">>

\* what a step can raise: an ordinary Exception or a KeyboardInterrupt
Errors == {"Exception", "KeyboardInterrupt"}

CrIdle ==
    [pc |-> "idle", name |-> "valid", management_address |-> "none",
     skip_cleanup |-> FALSE, skip_configuration |-> FALSE, size |-> 1,
     calls |-> <<>>, sent |-> <<>>, failed |-> "none", err |-> "none",
     exc |-> "none"]

CrInit ==
    {[CrIdle EXCEPT !.pc = "validate", !.name = nm, !.management_address = m,
                    !.skip_cleanup = sc, !.skip_configuration = sf,
                    !.size = n] :
        nm \in {"empty", "invalid", "valid"}, m \in {"none", "free", "in use"},
        sc \in BOOLEAN, sf \in BOOLEAN, n \in 1..MaxCluster}

\* the validation without its test of the requested management address
CrValidateNameOnly ==
    /\ op = "create"
    /\ cr.pc = "validate"
    /\ cr' = IF cr.name # "valid"
             THEN [cr EXCEPT !.pc = "raised", !.failed = "validate",
                             !.exc = "ConfigurationException"]
             ELSE [cr EXCEPT !.pc = "create_cluster"]
    /\ UNCHANGED <<op, now, pcall, hc, nj, act, an, lc, ld, al, cf, vn, ex, xr, rn>>

\* if not name: raise; if not cls.valid_cluster_name(name): raise;
\* if options.get('management_address') and service.in_use_addresses(...): raise
CrValidate ==
    /\ op = "create"
    /\ cr.pc = "validate"
    /\ cr' = IF cr.name # "valid" \/ cr.management_address = "in use"
             THEN [cr EXCEPT !.pc = "raised", !.failed = "validate",
                             !.exc = "ConfigurationException"]
             ELSE [cr EXCEPT !.pc = "create_cluster"]
    /\ UNCHANGED <<op, now, pcall, hc, nj, act, an, lc, ld, al, cf, vn, ex, xr, rn>>

\* try: service.create_cluster(c, **options)
\*      if options.get('skip_configuration'): return
\* except KeyboardInterrupt:
\*      if not options.get('skip_cleanup', False): c.destroy()
\*      raise
CrCreateCluster ==
    /\ op = "create"
    /\ cr.pc = "create_cluster"
    /\ \E outcome \in {"ok"} \cup Errors :
        LET c == [cr EXCEPT !.calls = Append(cr.calls, "create_cluster")] IN
        cr' = CASE outcome = "ok" ->
                     [c EXCEPT !.pc = IF cr.skip_configuration
                                      THEN "returned none" ELSE Phases[1]]
                [] outcome = "KeyboardInterrupt" ->
                     [c EXCEPT !.failed = "create_cluster", !.err = outcome,
                               !.pc = IF cr.skip_cleanup THEN "raised"
                                      ELSE "destroy",
                               !.exc = IF cr.skip_cleanup THEN outcome
                                       ELSE "none"]
                [] OTHER ->
                     [c EXCEPT !.failed = "create_cluster", !.err = outcome,
                               !.pc = "raised", !.exc = outcome]
    /\ UNCHANGED <<op, now, pcall, hc, nj, act, an, lc, ld, al, cf, vn, ex, xr, rn>>

\* setting = 'yes' if enable else 'no'
setting(enable) == IF enable THEN "yes" ELSE "no"

\* allow_node_join(enable): the settings the management channel has been sent
\* once the call has ended.  Every pass of its loop sends the same setting
\* with cluster.modify, and the call returns only after a pass whose answer
\* was 'success'; a call that raises has sent the setting (delivered) or was
\* never connected.
allow_node_join(sent, enable, delivered) ==
    IF delivered THEN Append(sent, setting(enable)) ELSE sent

\* the successor of a step with enable_ha called whatever the cluster size
next_pc_always_ha(i, size) ==
    IF i = Len(Phases) THEN "returned" ELSE Phases[i + 1]

\* the step that follows step i when it succeeds: enable_ha is called only
\* if len(c.nodes) > 1, and after the last step create returns the cluster
next_pc(i, size) ==
    IF i = Len(Phases) \/ (Phases[i + 1] = "enable_ha" /\ size <= 1)
    THEN "returned" ELSE Phases[i + 1]

\* one step of create inside its try block:
\* except (KeyboardInterrupt, Exception) as e:
\*      if not options.get('skip_cleanup', False): c.destroy()
\*      else: c.telemetry()
CrStep(i) ==
    /\ op = "create"
    /\ cr.pc = Phases[i]
    /\ \E outcome \in {"ok"} \cup Errors, delivered \in BOOLEAN :
        LET c == [cr EXCEPT !.calls = Append(cr.calls, Phases[i]),
                            !.sent = IF Phases[i] = "allow_node_join"
                                     THEN allow_node_join(cr.sent, FALSE,
                                              outcome = "ok" \/ delivered)
                                     ELSE cr.sent] IN
        cr' = IF outcome = "ok"
              THEN [c EXCEPT !.pc = next_pc(i, cr.size)]
              ELSE [c EXCEPT !.failed = Phases[i], !.err = outcome,
                             !.pc = IF cr.skip_cleanup THEN "telemetry"
                                    ELSE "destroy"]
    /\ UNCHANGED <<op, now, pcall, hc, nj, act, an, lc, ld, al, cf, vn, ex, xr, rn>>

\* what the handler raises once its cleanup has returned: the first two try
\* blocks end in a bare raise, the last one in raise vFXTCreateFailure(e)
handler_raises(failed, err) ==
    IF failed \in {"create_cluster", "wait_for_service_checks",
                   "wait_for_nodes_to_join"}
    THEN err ELSE "CreateFailure"

\* c.destroy() in a handler: it returns, or its own error replaces the
\* error being handled
CrDestroy ==
    /\ op = "create"
    /\ cr.pc = "destroy"
    /\ \E outcome \in {"ok", "raised"} :
        cr' = [cr EXCEPT !.calls = Append(cr.calls, "destroy"),
                         !.pc = "raised",
                         !.exc = IF outcome = "ok"
                                 THEN handler_raises(cr.failed, cr.err)
                                 ELSE "destroy failed"]
    /\ UNCHANGED <<op, now, pcall, hc, nj, act, an, lc, ld, al, cf, vn, ex, xr, rn>>

\* c.telemetry() in a handler: it returns, or raises vFXTStatusFailure
CrTelemetry ==
    /\ op = "create"
    /\ cr.pc = "telemetry"
    /\ \E outcome \in {"ok", "raised"} :
        cr' = [cr EXCEPT !.calls = Append(cr.calls, "telemetry"),
                         !.pc = "raised",
                         !.exc = IF outcome = "ok"
                                 THEN handler_raises(cr.failed, cr.err)
                                 ELSE "StatusFailure"]
    /\ UNCHANGED <<op, now, pcall, hc, nj, act, an, lc, ld, al, cf, vn, ex, xr, rn>>

CrNext ==
    \/ CrValidate
    \/ CrCreateCluster
    \/ \E i \in 1..Len(Phases) : CrStep(i)
    \/ CrDestroy
    \/ CrTelemetry

(***************************************************************************)
(* Cluster.add_nodes(count, **options).  Nodes are named by their ids,     *)
(* 1..node_count before the call and the next `count` ids for the nodes    *)
(* the backend provisions; a node's address is written as its id.          *)
(***************************************************************************)
\* the steps of add_nodes inside its try block, in program order
TrySteps == <<"allow_node_join", "add_cluster_nodes", "wait_for_service_checks",
              "wait_for_nodes_to_join", "refresh", "enable_ha",
              "allow_node_join(False)", "set_node_naming_policy">>

\* the address ranges one call may extend, in the order the code applies
\* them: the cluster range, then the range of each vserver in turn
RangeOrder == <<<<"cluster", 0>>>> \o [v \in 1..MaxVservers |-> <<"vserver", v>>]

NodeIds == 1..(MaxExisting + MaxCount)

AnIdle ==
    [pc |-> "idle", node_count |-> 0, count |-> 1, skip_cleanup |-> FALSE,
     licensed |-> 0, nodes |-> {}, plan |-> <<>>, added |-> <<>>,
     ranges |-> {}, sent |-> <<>>, failed |-> "none", err |-> "none",
     exc |-> "none", at |-> "none", expected |-> {}, joined |-> {},
     joining |-> {}, unjoined |-> {}, targets |-> {}, destroy_called |-> FALSE,
     none_joined |-> FALSE,
     k |-> 0, polls |-> 0, removals |-> <<>>, undo_errors |-> 0]

AnInit ==
    {[AnIdle EXCEPT !.pc = "reload", !.node_count = n, !.count = c,
                    !.skip_cleanup = sc, !.nodes = 1..n] :
        n \in 0..MaxExisting, c \in 1..MaxCount, sc \in BOOLEAN}

\* add_nodes raises `exc` from the step it is at
an_raise(a, exc) == [a EXCEPT !.at = a.pc, !.pc = "raised", !.exc = exc]

\* self.reload(); if not node_count: raise vFXTConfigurationException;
\* self.service._add_cluster_nodes_setup(self, count, **options)
AnReload ==
    /\ op = "add_nodes"
    /\ an.pc = "reload"
    /\ \E outcome \in {"ok", "raised"} :
        an' = IF outcome = "raised" THEN an_raise(an, "Exception")
              ELSE IF an.node_count = 0
                   THEN an_raise(an, "ConfigurationException")
                   ELSE [an EXCEPT !.pc = "license"]
    /\ UNCHANGED <<op, now, pcall, hc, nj, act, cr, lc, ld, al, cf, vn, ex, xr, rn>>

\* the license test with nodes at the ceiling rejected as well
over_license_inclusive(node_count, count, licensed_count) ==
    (node_count + count) >= licensed_count

\* if (node_count+count) > licensed_count
over_license(node_count, count, licensed_count) ==
    (node_count + count) > licensed_count

\* license_data = self.xmlrpc().cluster.listLicenses(); the test of maxNodes
AnLicense ==
    /\ op = "add_nodes"
    /\ an.pc = "license"
    /\ \/ an' = an_raise(an, "ConnectionFailure")
       \/ \E m \in 1..MaxLicensed :
            an' = IF over_license(an.node_count, an.count, m)
                  THEN an_raise([an EXCEPT !.licensed = m],
                                "ConfigurationException")
                  ELSE [an EXCEPT !.licensed = m, !.pc = "allocate"]
    /\ UNCHANGED <<op, now, pcall, hc, nj, act, cr, lc, ld, al, cf, vn, ex, xr, rn>>

\* the ranges that need extending, in application order
Plans ==
    {p \in UNION {[1..n -> 1..Len(RangeOrder)] : n \in 0..Len(RangeOrder)} :
        \A x \in 1..Len(p), y \in 1..Len(p) : x < y => p[x] < p[y]}

\* the queries that size the extension, and the block of free addresses:
\* need_cluster, need_vserver, in_use_addresses, get_available_addresses
AnAllocate ==
    /\ op = "add_nodes"
    /\ an.pc = "allocate"
    /\ \/ an' = an_raise(an, "Exception")
       \/ \E p \in Plans :
            an' = [an EXCEPT !.plan = [x \in 1..Len(p) |-> RangeOrder[p[x]]],
                             !.pc = IF p = <<>> THEN TrySteps[1]
                                    ELSE "extend"]
    /\ UNCHANGED <<op, now, pcall, hc, nj, act, cr, lc, ld, al, cf, vn, ex, xr, rn>>

\* one extension: addClusterIPs / addClientIPs, its activity polled to the
\* end, then added.append(...).  A failure here is outside the try block.
AnExtend ==
    /\ op = "add_nodes"
    /\ an.pc = "extend"
    /\ LET r == an.plan[Len(an.added) + 1] IN
       \/ an' = an_raise(an, "ConnectionFailure")
       \/ an' = an_raise(an, "ConfigurationException")
       \/ an' = [an EXCEPT !.ranges = an.ranges \cup {r},
                           !.added = Append(an.added, r),
                           !.pc = IF Len(an.added) + 1 = Len(an.plan)
                                  THEN TrySteps[1] ELSE "extend"]
    /\ UNCHANGED <<op, now, pcall, hc, nj, act, cr, lc, ld, al, cf, vn, ex, xr, rn>>

\* self.nodes once service.add_cluster_nodes has ended after provisioning
\* `made` of the nodes
provisioned(a, made) == a.nodes \cup ((a.node_count + 1)..(a.node_count + made))

\* one step of the try block; except (KeyboardInterrupt, Exception) as e:
\*     if options.get('skip_cleanup', False): self.telemetry() ...
AnStep(i) ==
    /\ op = "add_nodes"
    /\ an.pc = TrySteps[i]
    /\ \E outcome \in {"ok"} \cup Errors, delivered \in BOOLEAN,
          made \in 0..an.count :
        LET enable == TrySteps[i] = "allow_node_join"
            a == [an EXCEPT
                    !.sent = IF TrySteps[i] \in {"allow_node_join",
                                                 "allow_node_join(False)"}
                             THEN allow_node_join(an.sent, enable,
                                      outcome = "ok" \/ delivered)
                             ELSE an.sent,
                    !.nodes = IF TrySteps[i] = "add_cluster_nodes"
                              THEN provisioned(an, IF outcome = "ok"
                                                   THEN an.count ELSE made)
                              ELSE an.nodes] IN
        an' = IF outcome = "ok"
              THEN [a EXCEPT !.pc = IF i = Len(TrySteps) THEN "returned"
                                    ELSE TrySteps[i + 1]]
              ELSE [a EXCEPT !.failed = TrySteps[i], !.err = outcome,
                             !.pc = IF an.skip_cleanup THEN "telemetry"
                                    ELSE "load"]
    /\ UNCHANGED <<op, now, pcall, hc, nj, act, cr, lc, ld, al, cf, vn, ex, xr, rn>>

\* self.telemetry(); raise vFXTCreateFailure(e)
AnTelemetry ==
    /\ op = "add_nodes"
    /\ an.pc = "telemetry"
    /\ \E outcome \in {"ok", "raised"} :
        an' = an_raise(an, IF outcome = "ok" THEN "CreateFailure"
                           ELSE "StatusFailure")
    /\ UNCHANGED <<op, now, pcall, hc, nj, act, cr, lc, ld, al, cf, vn, ex, xr, rn>>

\* set(expected_nodes) ^ set(joined_nodes)
symmetric_difference(s, t) == (s \ t) \cup (t \ s)

\* expected_nodes = [n.id() for n in self.nodes];
\* self.service.load_cluster_information(self);
\* joined_nodes = [n.id() for n in self.nodes]; unjoined = ...
AnLoad ==
    /\ op = "add_nodes"
    /\ an.pc = "load"
    /\ \/ an' = an_raise(an, "Exception")
       \/ \E j \in SUBSET (1..(an.node_count + an.count)) :
            an' = [an EXCEPT !.expected = an.nodes, !.joined = j,
                             !.nodes = j,
                             !.none_joined =
                                 j \cap ((an.node_count + 1)..
                                         (an.node_count + an.count)) = {},
                             !.unjoined = symmetric_difference(an.nodes, j),
                             !.pc = "list"]
    /\ UNCHANGED <<op, now, pcall, hc, nj, act, cr, lc, ld, al, cf, vn, ex, xr, rn>>

\* the reconciler with the nodes that are joining not excluded
unjoined_nodes_unfiltered(unjoined, joining_node_addresses) == unjoined

\* unjoined_nodes = [_ for _ in unjoined_nodes
\*                   if _.ip() not in joining_node_addresses]
unjoined_nodes(unjoined, joining_node_addresses) ==
    {n \in unjoined : n \notin joining_node_addresses}

\* if len(unjoined) == count: for a in added: ...  The lists the reconciler
\* worked on are not read again.
after_destroy(a) ==
    LET b == [a EXCEPT !.expected = {}, !.joined = {}, !.joining = {},
                       !.unjoined = {}, !.targets = {}] IN
    IF Cardinality(a.unjoined) = a.count /\ a.added # <<>>
    THEN [b EXCEPT !.pc = "lookup", !.k = 1]
    ELSE [b EXCEPT !.pc = "disable"]

\* joining_node_addresses = [_['address'] for _ in
\*     self.xmlrpc().node.listUnconfiguredNodes() if 'joining' in _['status']]
AnList ==
    /\ op = "add_nodes"
    /\ an.pc = "list"
    /\ \/ an' = an_raise(an, "ConnectionFailure")
       \/ \E j \in SUBSET (1..(an.node_count + an.count)) :
            an' = [an EXCEPT !.joining = j,
                             !.targets = unjoined_nodes(an.unjoined, j),
                             !.pc = "destroy"]
    /\ UNCHANGED <<op, now, pcall, hc, nj, act, cr, lc, ld, al, cf, vn, ex, xr, rn>>

\* if unjoined_nodes:
\*     try: self.parallel_call(unjoined_nodes, 'destroy')
\*     except Exception as destroy_e: log.error(...)
AnDestroy ==
    /\ op = "add_nodes"
    /\ an.pc = "destroy"
    /\ \E outcome \in {"ok"} \cup Errors :
        an' = IF an.targets = {} THEN after_destroy(an)
              ELSE IF outcome = "KeyboardInterrupt"
                   THEN an_raise([an EXCEPT !.destroy_called = TRUE], outcome)
                   ELSE after_destroy([an EXCEPT !.destroy_called = TRUE])
    /\ UNCHANGED <<op, now, pcall, hc, nj, act, cr, lc, ld, al, cf, vn, ex, xr, rn>>

\* the for loop over `added` moves to its next element, or ends
next_added(a) ==
    IF a.k = Len(a.added) THEN [a EXCEPT !.pc = "disable", !.polls = 0]
    ELSE [a EXCEPT !.pc = "lookup", !.k = a.k + 1, !.polls = 0]

\* for a in added: the lookup of the range by its first and last address
\* (vserver.list and vserver.get, or cluster.get)
AnLookup ==
    /\ op = "add_nodes"
    /\ an.pc = "lookup"
    /\ \/ an' = an_raise(an, "ConnectionFailure")
       \/ an' = IF an.added[an.k] \in an.ranges
                THEN [an EXCEPT !.pc = "remove"]
                ELSE next_added(an)
    /\ UNCHANGED <<op, now, pcall, hc, nj, act, cr, lc, ld, al, cf, vn, ex, xr, rn>>

\* activity = removeClientIPs(vserver, r['name']) / removeClusterIPs(r['name'])
AnRemove ==
    /\ op = "add_nodes"
    /\ an.pc = "remove"
    /\ LET r == an.added[an.k]
           a == [an EXCEPT !.removals = Append(an.removals, <<"start", r>>)] IN
       \/ an' = an_raise(an, "ConnectionFailure")
       \/ an' = next_added([a EXCEPT !.ranges = an.ranges \ {r},
                                     !.removals = Append(a.removals,
                                                         <<"end", r>>)])
       \/ an' = [a EXCEPT !.pc = "poll"]
    /\ UNCHANGED <<op, now, pcall, hc, nj, act, cr, lc, ld, al, cf, vn, ex, xr, rn>>

\* response = self.xmlrpc().cluster.getActivity(activity): state 'success'
\* ends the poll, status 'failure' is logged and ends it, else self._sleep().
\* add_nodes never reads the clock, which is left where it is.
AnPoll ==
    /\ op = "add_nodes"
    /\ an.pc = "poll"
    /\ an.polls < MaxPolls
    /\ LET r == an.added[an.k]
           ended == [an EXCEPT !.removals = Append(an.removals, <<"end", r>>)] IN
       \/ an' = an_raise(an, "ConnectionFailure")
       \/ \E response \in ActivityResponses :
            an' = IF response.state = "success"
                  THEN next_added([ended EXCEPT !.ranges = an.ranges \ {r}])
                  ELSE IF response.status = "failure"
                       THEN next_added([ended EXCEPT
                                    !.undo_errors = an.undo_errors + 1])
                       ELSE [an EXCEPT !.polls = an.polls + 1]
    /\ UNCHANGED <<op, now, pcall, hc, nj, act, cr, lc, ld, al, cf, vn, ex, xr, rn>>

\* self.allow_node_join(False); raise vFXTCreateFailure(e)
AnDisable ==
    /\ op = "add_nodes"
    /\ an.pc = "disable"
    /\ \E outcome \in {"ok", "raised"}, delivered \in BOOLEAN :
        an' = an_raise([an EXCEPT !.sent = allow_node_join(an.sent, FALSE,
                                               outcome = "ok" \/ delivered)],
                       IF outcome = "ok" THEN "CreateFailure"
                       ELSE "allow_node_join failed")
    /\ UNCHANGED <<op, now, pcall, hc, nj, act, cr, lc, ld, al, cf, vn, ex, xr, rn>>

AnNext ==
    \/ AnReload
    \/ AnLicense
    \/ AnAllocate
    \/ AnExtend
    \/ \E i \in 1..Len(TrySteps) : AnStep(i)
    \/ AnTelemetry
    \/ AnLoad
    \/ AnList
    \/ AnDestroy
    \/ AnLookup
    \/ AnRemove
    \/ AnPoll
    \/ AnDisable

(***************************************************************************)
(* Cluster.start, stop, shelve, unshelve and destroy.  status[k] is the     *)
(* state of node k as the node handles report it (is_on, is_off,           *)
(* is_shelved); the handles are renewed by refresh().  calls is the list   *)
(* of the calls made on the management channel and on the backend.         *)
(***************************************************************************)
LcOps == {"stop", "shelve", "unshelve", "start", "destroy"}

Power == {"on", "off", "shelved", "destroyed"}

\* def is_on(self): if self.nodes: return all(i.is_on() for i in self.nodes)
is_on(status) ==
    DOMAIN status # {} /\ \A k \in DOMAIN status : status[k] = "on"

\* def is_off(self): a shelved node is off as well
is_off(status) ==
    DOMAIN status # {} /\ \A k \in DOMAIN status : status[k] \in {"off", "shelved"}

\* def is_shelved(self)
is_shelved(status) ==
    is_off(status) /\ \A k \in DOMAIN status : status[k] = "shelved"

LcIdle ==
    [pc |-> "idle", status |-> <<>>, began |-> <<>>, admin_password |-> FALSE,
     can_stop |-> TRUE, can_shelve |-> TRUE, clean_stop |-> TRUE, R |-> 1,
     retries |-> 1, rpc_retries |-> 1, polls |-> 0, ret |-> "returned",
     remove_buckets |-> FALSE, buckets |-> 0, deleted |-> 0, calls |-> <<>>,
     notified |-> "none", exc |-> "none"]

\* the clusters an operation is called on
LcClusters ==
    {[LcIdle EXCEPT !.status = st, !.began = st, !.admin_password = pw] :
        st \in UNION {[1..n -> Power \ {"destroyed"}] : n \in 0..MaxLcNodes},
        pw \in BOOLEAN}

LcInit(o) ==
    CASE o = "stop" ->
            {[c EXCEPT !.pc = "stop", !.clean_stop = cs, !.R = r, !.retries = r,
                       !.can_stop = st] :
                c \in LcClusters, cs \in BOOLEAN, r \in 0..MaxRetries,
                st \in BOOLEAN}
      [] o = "shelve" ->
            {[c EXCEPT !.pc = "shelve", !.clean_stop = cs, !.R = MaxRetries,
                       !.retries = MaxRetries, !.can_stop = st,
                       !.can_shelve = sh, !.ret = "fanout_shelve"] :
                c \in LcClusters, cs \in BOOLEAN, st \in BOOLEAN,
                sh \in BOOLEAN}
      [] o = "destroy" ->
            {[c EXCEPT !.pc = "collect", !.remove_buckets = rb] :
                c \in LcClusters, rb \in BOOLEAN}
      [] OTHER -> {[c EXCEPT !.pc = o] : c \in LcClusters}

lc_raise(l, exc) == [l EXCEPT !.pc = "raised", !.exc = exc]

called(l, what) == [l EXCEPT !.calls = Append(l.calls, what)]

\* the graceful stop entered for a cluster whose nodes refuse to stop
graceful_unchecked(l) ==
    [l EXCEPT !.pc = "powerdown"]

\* if not all([_.can_stop() for _ in self.nodes]): raise ...; else powerdown
graceful(l) ==
    IF ~l.can_stop THEN lc_raise(l, "ConfigurationException")
    ELSE [l EXCEPT !.pc = "powerdown"]

\* if clean_stop and (self.admin_password and self.nodes and self.is_on()):
LcStop ==
    /\ op \in {"stop", "shelve"}
    /\ lc.pc = "stop"
    /\ \E rpc \in 1..MaxRpcRetries :
        lc' = IF lc.clean_stop /\ lc.admin_password /\ is_on(lc.status)
              THEN graceful([lc EXCEPT !.rpc_retries = rpc])
              ELSE [lc EXCEPT !.pc = "fanout_stop"]
    /\ UNCHANGED <<op, now, pcall, hc, nj, act, cr, an, ld, al, cf, vn, ex, xr, rn>>

\* response = self.xmlrpc().cluster.powerdown(); if response == 'success':
\* break; rpc_retries -= 1; if rpc_retries == 0: raise vFXTStatusFailure
LcPowerdown ==
    /\ op \in {"stop", "shelve"}
    /\ lc.pc = "powerdown"
    /\ \E answer \in {"success", "failed", "no connection"} :
        lc' = CASE answer = "no connection" -> lc_raise(lc, "ConnectionFailure")
                [] answer = "success" ->
                     [called(lc, "powerdown") EXCEPT !.pc = "is_on"]
                [] OTHER ->
                     IF lc.rpc_retries - 1 = 0
                     THEN lc_raise([called(lc, "powerdown refused") EXCEPT
                                        !.rpc_retries = lc.rpc_retries - 1],
                                   "StatusFailure")
                     ELSE [called(lc, "powerdown refused") EXCEPT
                               !.rpc_retries = lc.rpc_retries - 1]
    /\ UNCHANGED <<op, now, pcall, hc, nj, act, cr, an, ld, al, cf, vn, ex, xr, rn>>

\* while self.is_on():
LcIsOn ==
    /\ op \in {"stop", "shelve"}
    /\ lc.pc = "is_on"
    /\ lc' = IF is_on(lc.status) THEN [lc EXCEPT !.pc = "wait"]
             ELSE [called(lc, "offline") EXCEPT !.pc = "fanout_stop"]
    /\ UNCHANGED <<op, now, pcall, hc, nj, act, cr, an, ld, al, cf, vn, ex, xr, rn>>

\* the states the handles may report after a powerdown: a node that was on
\* is still on or has gone off
AfterPowerdown(status) ==
    {st \in [DOMAIN status -> Power] :
        \A k \in DOMAIN status :
            st[k] = status[k] \/ (status[k] = "on" /\ st[k] = "off")}

\* self._sleep(); self.refresh(); retries -= 1;
\* if retries == 0: raise vFXTStatusFailure(...)
LcWait ==
    /\ op \in {"stop", "shelve"}
    /\ lc.pc = "wait"
    /\ lc.polls < lc.R + 1 + MaxOverrun
    /\ \E st \in AfterPowerdown(lc.status) :
        LET l == [lc EXCEPT !.status = st, !.retries = lc.retries - 1,
                            !.polls = lc.polls + 1] IN
        lc' = IF l.retries = 0 THEN lc_raise(l, "StatusFailure")
              ELSE [l EXCEPT !.pc = "is_on"]
    /\ UNCHANGED <<op, now, pcall, hc, nj, act, cr, an, ld, al, cf, vn, ex, xr, rn>>

\* the state of the nodes after parallel_call(self.nodes, method): the
\* nodes of `reached` have run the method to its end
fanned_out(status, reached, to) ==
    [k \in DOMAIN status |-> IF k \in reached THEN to ELSE status[k]]

\* self.parallel_call(self.nodes, method); self.refresh()
fanout(l, method, to, reached, next) ==
    IF reached = DOMAIN l.status
    THEN [called(called(l, method), "refresh") EXCEPT
              !.status = fanned_out(l.status, reached, to), !.pc = next]
    ELSE lc_raise([called(l, method) EXCEPT
                       !.status = fanned_out(l.status, reached, to)],
                  "ServiceFailure")

\* self.parallel_call(self.nodes, 'stop'); self.refresh()
LcFanoutStop ==
    /\ op \in {"stop", "shelve"}
    /\ lc.pc = "fanout_stop"
    /\ \E reached \in SUBSET DOMAIN lc.status :
        lc' = fanout(lc, "stop", "off", reached, lc.ret)
    /\ UNCHANGED <<op, now, pcall, hc, nj, act, cr, an, ld, al, cf, vn, ex, xr, rn>>

\* the tests at the head of shelve
LcShelve ==
    /\ op = "shelve"
    /\ lc.pc = "shelve"
    /\ lc' = IF ~lc.admin_password \/ ~is_on(lc.status) \/ ~lc.can_shelve
             THEN lc_raise(lc, "ConfigurationException")
             ELSE [lc EXCEPT !.pc = "notify"]
    /\ UNCHANGED <<op, now, pcall, hc, nj, act, cr, an, ld, al, cf, vn, ex, xr, rn>>

\* the try block of shelve with every fault tolerated
notify_any_fault(l, call, answer) ==
    CASE answer = "success" ->
            IF call = "setShelve"
            THEN [called(l, "setShelve") EXCEPT !.notified = "accepted",
                                               !.pc = "stop"]
            ELSE [l EXCEPT !.pc = "setShelve"]
      [] answer = "refused" -> lc_raise(l, "ConfigurationException")
      [] answer = "fault 108" ->
            [l EXCEPT !.notified = "not supported", !.pc = "stop"]
      [] OTHER -> [l EXCEPT !.notified = "faulted", !.pc = "stop"]

\* what the try block of shelve ends in for the answer of one of its calls:
\* except xmlrpclib_Fault as e: if int(e.faultCode) != 108: raise
notify(l, call, answer) ==
    CASE answer = "success" ->
            IF call = "setShelve"
            THEN [called(l, "setShelve") EXCEPT !.notified = "accepted",
                                               !.pc = "stop"]
            ELSE [l EXCEPT !.pc = "setShelve"]
      [] answer = "refused" -> lc_raise(l, "ConfigurationException")
      [] answer = "fault 108" ->
            [l EXCEPT !.notified = "not supported", !.pc = "stop"]
      [] OTHER -> lc_raise(l, "Fault")

\* xmlrpc = self.xmlrpc(); response = xmlrpc.system.enableAPI('maintenance')
LcEnableAPI ==
    /\ op = "shelve"
    /\ lc.pc = "notify"
    /\ \/ lc' = lc_raise(lc, "ConnectionFailure")
       \/ \E answer \in {"success", "refused", "fault 108", "fault"} :
            lc' = notify(lc, "enableAPI", answer)
    /\ UNCHANGED <<op, now, pcall, hc, nj, act, cr, an, ld, al, cf, vn, ex, xr, rn>>

\* response = xmlrpc.maint.setShelve()
LcSetShelve ==
    /\ op = "shelve"
    /\ lc.pc = "setShelve"
    /\ \E answer \in {"success", "refused", "fault 108", "fault"} :
        lc' = notify(lc, "setShelve", answer)
    /\ UNCHANGED <<op, now, pcall, hc, nj, act, cr, an, ld, al, cf, vn, ex, xr, rn>>

\* self.parallel_call(self.nodes, 'shelve', **options); self.refresh()
LcFanoutShelve ==
    /\ op = "shelve"
    /\ lc.pc = "fanout_shelve"
    /\ \E reached \in SUBSET DOMAIN lc.status :
        lc' = fanout(lc, "shelve", "shelved", reached, "returned")
    /\ UNCHANGED <<op, now, pcall, hc, nj, act, cr, an, ld, al, cf, vn, ex, xr, rn>>

\* unshelve: the fan-out, the refresh, then wait_for_healthcheck if the
\* cluster can be reached
LcUnshelve ==
    /\ op = "unshelve"
    /\ lc.pc = "unshelve"
    /\ \E reached \in SUBSET DOMAIN lc.status, to \in {"on", "off"} :
        lc' = fanout(lc, "unshelve", to, reached, "healthcheck")
    /\ UNCHANGED <<op, now, pcall, hc, nj, act, cr, an, ld, al, cf, vn, ex, xr, rn>>

\* if self.mgmt_ip and self.admin_password and self.nodes and self.is_on():
\*     self.wait_for_healthcheck(state='red', duration=1, conn_retries=20)
LcHealthcheck ==
    /\ op = "unshelve"
    /\ lc.pc = "healthcheck"
    /\ \E outcome \in {"ok", "raised"} :
        lc' = IF lc.admin_password /\ is_on(lc.status)
              THEN IF outcome = "ok"
                   THEN [called(lc, "wait_for_healthcheck") EXCEPT
                             !.pc = "returned"]
                   ELSE lc_raise(called(lc, "wait_for_healthcheck"),
                                 "StatusFailure")
              ELSE [lc EXCEPT !.pc = "returned"]
    /\ UNCHANGED <<op, now, pcall, hc, nj, act, cr, an, ld, al, cf, vn, ex, xr, rn>>

\* start: self.parallel_call(self.nodes, 'start'); self.refresh()
LcStart ==
    /\ op = "start"
    /\ lc.pc = "start"
    /\ \E reached \in SUBSET DOMAIN lc.status :
        lc' = fanout(lc, "start", "on", reached, "returned")
    /\ UNCHANGED <<op, now, pcall, hc, nj, act, cr, an, ld, al, cf, vn, ex, xr, rn>>

\* if remove_buckets: try: buckets = [...] except Exception: log.debug(...)
LcCollect ==
    /\ op = "destroy"
    /\ lc.pc = "collect"
    /\ \E found \in 0..MaxBuckets, outcome \in {"ok", "raised"} :
        lc' = IF ~lc.remove_buckets THEN [lc EXCEPT !.pc = "fanout_destroy"]
              ELSE [called(lc, "collect") EXCEPT
                        !.buckets = IF outcome = "ok" THEN found ELSE 0,
                        !.pc = "fanout_destroy"]
    /\ UNCHANGED <<op, now, pcall, hc, nj, act, cr, an, ld, al, cf, vn, ex, xr, rn>>

\* after the fan-out: if remove_buckets and buckets: for bucket_name in ...
after_fanout_destroy(l) ==
    IF l.remove_buckets /\ l.buckets > 0 THEN "delete_bucket"
    ELSE "post_destroy"

\* self.parallel_call(self.nodes, 'destroy', **options)
LcFanoutDestroy ==
    /\ op = "destroy"
    /\ lc.pc = "fanout_destroy"
    /\ \E reached \in SUBSET DOMAIN lc.status :
        lc' = IF reached = DOMAIN lc.status
              THEN [called(lc, "destroy") EXCEPT
                        !.status = fanned_out(lc.status, reached, "destroyed"),
                        !.pc = after_fanout_destroy(lc)]
              ELSE lc_raise([called(lc, "destroy") EXCEPT
                        !.status = fanned_out(lc.status, reached, "destroyed")],
                        "ServiceFailure")
    /\ UNCHANGED <<op, now, pcall, hc, nj, act, cr, an, ld, al, cf, vn, ex, xr, rn>>

\* a bucket deletion whose failure ends the loop
delete_bucket_strict(l, outcome) ==
    IF outcome = "raised" THEN lc_raise(called(l, "delete_bucket"), "Exception")
    ELSE [called(l, "delete_bucket") EXCEPT
              !.deleted = l.deleted + 1,
              !.pc = IF l.deleted + 1 = l.buckets THEN "post_destroy"
                     ELSE "delete_bucket"]

\* try: self.service.delete_bucket(bucket_name)
\* except Exception as e: log.debug("Ignoring remove bucket failure")
delete_bucket(l, outcome) ==
    [called(l, "delete_bucket") EXCEPT
         !.deleted = l.deleted + 1,
         !.pc = IF l.deleted + 1 = l.buckets THEN "post_destroy"
                ELSE "delete_bucket"]

LcDeleteBucket ==
    /\ op = "destroy"
    /\ lc.pc = "delete_bucket"
    /\ \E outcome \in {"ok", "raised"} : lc' = delete_bucket(lc, outcome)
    /\ UNCHANGED <<op, now, pcall, hc, nj, act, cr, an, ld, al, cf, vn, ex, xr, rn>>

\* self.service.post_destroy_cluster(self)
LcPostDestroy ==
    /\ op = "destroy"
    /\ lc.pc = "post_destroy"
    /\ \E outcome \in {"ok", "raised"} :
        lc' = IF outcome = "ok"
              THEN [called(lc, "post_destroy_cluster") EXCEPT !.pc = "returned"]
              ELSE lc_raise(called(lc, "post_destroy_cluster"), "Exception")
    /\ UNCHANGED <<op, now, pcall, hc, nj, act, cr, an, ld, al, cf, vn, ex, xr, rn>>

LcNext ==
    \/ LcStop
    \/ LcPowerdown
    \/ LcIsOn
    \/ LcWait
    \/ LcFanoutStop
    \/ LcShelve
    \/ LcEnableAPI
    \/ LcSetShelve
    \/ LcFanoutShelve
    \/ LcUnshelve
    \/ LcHealthcheck
    \/ LcStart
    \/ LcCollect
    \/ LcFanoutDestroy
    \/ LcDeleteBucket
    \/ LcPostDestroy

(***************************************************************************)
(* load_cluster_information and its three callers: Cluster.load, reload   *)
(* (alone or as the first step of add_nodes) and the constructor.         *)
(***************************************************************************)
LdOps == {"load", "reload", "__init__"}

LdIdle ==
    [pc |-> "idle", caller |-> "none", mgmt_ip |-> FALSE,
     admin_password |-> FALSE, nodes |-> 0, on |-> FALSE, began |-> 0,
     was_on |-> FALSE, expected |-> -1, entered |-> FALSE, loaded |-> FALSE,
     exc |-> "none"]

\* the cluster objects the callers start from: the nodes the object holds
\* and whether all of them are on (is_on is False without nodes)
LdObjects ==
    UNION {{[LdIdle EXCEPT !.nodes = n, !.began = n, !.on = o, !.was_on = o,
                           !.mgmt_ip = TRUE, !.admin_password = TRUE] :
                o \in {x \in BOOLEAN : x => n > 0}} : n \in 0..MaxFound}

LdInit(o) ==
    CASE o = "load" ->
            \* cluster = cls(service): no nodes yet
            {[c EXCEPT !.pc = "load", !.caller = "load"] :
                c \in {x \in LdObjects : x.nodes = 0}}
      [] o = "reload" ->
            {[c EXCEPT !.pc = "reload", !.caller = k] :
                c \in LdObjects, k \in {"reload", "add_nodes"}}
      [] OTHER ->
            {[c EXCEPT !.pc = "__init__", !.caller = "__init__",
                       !.mgmt_ip = m, !.admin_password = pw] :
                c \in LdObjects, m \in BOOLEAN, pw \in BOOLEAN}

ld_raise(l, exc) == [l EXCEPT !.pc = "raised", !.exc = exc]

\* cluster.load_cluster_information() in load
LdLoad ==
    /\ op = "load"
    /\ ld.pc = "load"
    /\ ld' = [ld EXCEPT !.pc = "load_cluster_information"]
    /\ UNCHANGED <<op, now, pcall, hc, nj, act, cr, an, lc, al, cf, vn, ex, xr, rn>>

\* if self.is_on(): self.load_cluster_information() else: self.refresh()
LdReload ==
    /\ op = "reload"
    /\ ld.pc = "reload"
    /\ ld' = [ld EXCEPT !.pc = IF ld.on THEN "load_cluster_information"
                              ELSE "refresh"]
    /\ UNCHANGED <<op, now, pcall, hc, nj, act, cr, an, lc, al, cf, vn, ex, xr, rn>>

\* for n in self.nodes: n.refresh()
LdRefresh ==
    /\ op = "reload"
    /\ ld.pc = "refresh"
    /\ \/ ld' = ld_raise(ld, "Exception")
       \/ \E o \in {x \in BOOLEAN : x => ld.nodes > 0} :
            ld' = [ld EXCEPT !.on = o, !.pc = "returned"]
    /\ UNCHANGED <<op, now, pcall, hc, nj, act, cr, an, lc, al, cf, vn, ex, xr, rn>>

\* if self.mgmt_ip and self.admin_password and self.nodes and self.is_on()
LdConstruct ==
    /\ op = "__init__"
    /\ ld.pc = "__init__"
    /\ ld' = [ld EXCEPT !.pc =
                IF ld.mgmt_ip /\ ld.admin_password /\ ld.nodes > 0 /\ ld.on
                THEN "load_cluster_information" ELSE "returned"]
    /\ UNCHANGED <<op, now, pcall, hc, nj, act, cr, an, lc, al, cf, vn, ex, xr, rn>>

\* xmlrpc = self.xmlrpc(); cluster_data = xmlrpc.cluster.get();
\* expected_count = len(xmlrpc.node.list())
LdQuery ==
    /\ op \in LdOps
    /\ ld.pc = "load_cluster_information"
    /\ \/ ld' = ld_raise([ld EXCEPT !.entered = TRUE], "ConnectionFailure")
       \/ \E e \in 0..MaxFound :
            ld' = [ld EXCEPT !.entered = TRUE, !.expected = e,
                             !.pc = "service"]
    /\ UNCHANGED <<op, now, pcall, hc, nj, act, cr, an, lc, al, cf, vn, ex, xr, rn>>

\* self.service.load_cluster_information(self): the backend fills self.nodes
LdService ==
    /\ op \in LdOps
    /\ ld.pc = "service"
    /\ \/ ld' = ld_raise(ld, "Exception")
       \/ \E f \in 0..MaxFound :
            ld' = [ld EXCEPT !.nodes = f, !.pc = "count"]
    /\ UNCHANGED <<op, now, pcall, hc, nj, act, cr, an, lc, al, cf, vn, ex, xr, rn>>

\* the count test with surplus nodes let through
counts_differ_short(expected_count, found_count) ==
    found_count < expected_count

\* if expected_count != found_count
counts_differ(expected_count, found_count) ==
    expected_count # found_count

\* if not self.nodes: raise vFXTConfigurationException;
\* if expected_count != found_count: raise vFXTStatusFailure
LdCount ==
    /\ op \in LdOps
    /\ ld.pc = "count"
    /\ ld' = IF ld.nodes = 0 THEN ld_raise(ld, "ConfigurationException")
             ELSE IF counts_differ(ld.expected, ld.nodes)
                  THEN ld_raise(ld, "StatusFailure")
                  ELSE [ld EXCEPT !.loaded = TRUE, !.pc = "returned"]
    /\ UNCHANGED <<op, now, pcall, hc, nj, act, cr, an, lc, al, cf, vn, ex, xr, rn>>

\* add_nodes after self.reload(): node_count = len(self.nodes);
\* if not node_count: raise vFXTConfigurationException
LdProceed ==
    /\ op = "reload"
    /\ ld.caller = "add_nodes"
    /\ ld.pc = "returned"
    /\ ld' = IF ld.nodes = 0 THEN ld_raise(ld, "ConfigurationException")
             ELSE [ld EXCEPT !.pc = "proceeds"]
    /\ UNCHANGED <<op, now, pcall, hc, nj, act, cr, an, lc, al, cf, vn, ex, xr, rn>>

LdNext ==
    \/ LdLoad
    \/ LdReload
    \/ LdRefresh
    \/ LdConstruct
    \/ LdQuery
    \/ LdService
    \/ LdCount
    \/ LdProceed

(***************************************************************************)
(* The address allocation of add_nodes: the sizes needed, the block of    *)
(* addresses obtained and its partition among the consumers.  Addresses   *)
(* are integers.  On the cluster the call starts from, the cluster range  *)
(* in use is 1..existing_cluster, the next address is free, the ranges of *)
(* the vservers follow one another and the management address comes last.*)
(***************************************************************************)
RECURSIVE Sum(_)
Sum(s) == IF s = <<>> THEN 0 ELSE s[1] + Sum(Tail(s))

AlIdle ==
    [pc |-> "idle", node_count |-> 1, count |-> 1, per_node |-> 1,
     existing_cluster |-> 0, vservers |-> <<>>, private |-> FALSE,
     custom |-> 0, need_vserver |-> 0, need_cluster |-> 0,
     need_private |-> 0, ip_count |-> 0, in_use |-> {}, avail_ips |-> <<>>,
     bound |-> FALSE, block |-> <<>>, mask |-> "none", requested |-> -1,
     applied |-> <<>>, k |-> 0, exc |-> "none"]

\* vservers[v] is the number of client-facing addresses of vserver v
AlInit ==
    {[AlIdle EXCEPT !.pc = "need", !.node_count = n, !.count = c,
                    !.per_node = p, !.existing_cluster = e, !.vservers = v,
                    !.private = pr, !.custom = cu] :
        n \in 1..MaxExisting, c \in 1..MaxCount, p \in 1..MaxPerNode,
        e \in 0..MaxInUse,
        v \in UNION {[1..m -> 0..MaxInUse] : m \in 0..MaxAlVservers},
        pr \in BOOLEAN, cu \in 0..MaxCustom}

al_raise(a, exc) == [a EXCEPT !.pc = "raised", !.exc = exc]

\* in_use_addresses(category) of the cluster `a`
in_use_addresses(a, category) ==
    LET first_vserver == a.existing_cluster + 2
        mgmt == first_vserver + Sum(a.vservers)
    IN  (IF category \in {"all", "mgmt"} THEN {mgmt} ELSE {})
        \cup (IF category \in {"all", "vserver"}
              THEN first_vserver..(mgmt - 1) ELSE {})
        \cup (IF category \in {"all", "cluster"}
              THEN 1..a.existing_cluster ELSE {})

Highest(addresses) == CHOOSE x \in addresses : \A y \in addresses : y <= x

\* service.get_available_addresses(count, contiguous=True, in_use): the
\* blocks of `count` consecutive addresses none of which is in use
get_available_addresses(count, in_use) ==
    {[i \in 1..count |-> s + i - 1] : s \in
        {t \in 1..(Highest(in_use) + 1) :
            \A i \in 0..(count - 1) : (t + i) \notin in_use}}

\* a size computed without the floor of zero
need_unclamped(wanted, existing) == wanted - existing

\* need = wanted - len(existing); need = need if need > 0 else 0
need(wanted, existing) ==
    IF wanted - existing > 0 THEN wanted - existing ELSE 0

\* the sizes: need_vserver, need_cluster, need_private, ip_count
AlNeed ==
    /\ op = "add_nodes addresses"
    /\ al.pc = "need"
    /\ \/ al' = al_raise(al, "ConnectionFailure")
       \/ LET total == al.node_count + al.count
              nv == need(total * Len(al.vservers),
                         Cardinality(in_use_addresses(al, "vserver")))
              nc == need(total * al.per_node,
                         Cardinality(in_use_addresses(al, "cluster")))
              np == IF al.private THEN al.count ELSE 0
          IN  al' = [al EXCEPT !.need_vserver = nv, !.need_cluster = nc,
                               !.need_private = np, !.ip_count = nv + nc + np,
                               !.pc = IF nv + nc + np > 0 THEN "obtain"
                                      ELSE "done"]
    /\ UNCHANGED <<op, now, pcall, hc, nj, act, cr, an, lc, ld, cf, vn, ex, xr, rn>>

\* in_use_addrs = self.in_use_addresses(); then the caller's range, which is
\* assigned to avail_ip and leaves avail_ips unbound, or the backend's block
AlObtain ==
    /\ op = "add_nodes addresses"
    /\ al.pc = "obtain"
    /\ LET in_use_addrs == in_use_addresses(al, "all") IN
       \/ al' = al_raise(al, "ConnectionFailure")
       \/ /\ al.custom > 0
          /\ al' = IF al.custom < al.ip_count
                   THEN al_raise([al EXCEPT !.in_use = in_use_addrs],
                                 "ConfigurationException")
                   ELSE [al EXCEPT !.in_use = in_use_addrs, !.mask = "custom",
                                   !.pc = "private"]
       \/ /\ al.custom = 0
          /\ \E block \in get_available_addresses(al.ip_count, in_use_addrs) :
                al' = [al EXCEPT !.in_use = in_use_addrs, !.avail_ips = block,
                                 !.bound = TRUE, !.block = block,
                                 !.mask = "backend",
                                 !.requested = al.ip_count, !.pc = "private"]
    /\ UNCHANGED <<op, now, pcall, hc, nj, act, cr, an, lc, ld, cf, vn, ex, xr, rn>>

\* avail_ips[0:n]
take(avail_ips, n) ==
    SubSeq(avail_ips, 1, IF n < Len(avail_ips) THEN n ELSE Len(avail_ips))

\* the slice left in place
keep(avail_ips, n) == avail_ips

\* del avail_ips[0:n]
drop(avail_ips, n) ==
    SubSeq(avail_ips, (IF n < Len(avail_ips) THEN n ELSE Len(avail_ips)) + 1,
           Len(avail_ips))

\* the consumer `who` is handed the first n addresses left
hand(a, who, n) ==
    LET addresses == take(a.avail_ips, n) IN
    [a EXCEPT !.avail_ips = drop(a.avail_ips, n),
              !.applied = Append(a.applied,
                    [who |-> who, firstIP |-> addresses[1],
                     lastIP |-> addresses[Len(addresses)],
                     netmask |-> a.mask])]

\* if need_private: options['private_addresses'] = avail_ips[0:need_private]
AlPrivate ==
    /\ op = "add_nodes addresses"
    /\ al.pc = "private"
    /\ al' = IF al.need_private = 0 THEN [al EXCEPT !.pc = "cluster"]
             ELSE IF ~al.bound THEN al_raise(al, "UnboundLocalError")
             ELSE [hand(al, <<"private", 0>>, al.need_private)
                        EXCEPT !.pc = "cluster"]
    /\ UNCHANGED <<op, now, pcall, hc, nj, act, cr, an, lc, ld, cf, vn, ex, xr, rn>>

\* where add_nodes goes after the cluster range
after_cluster(a) ==
    IF a.need_vserver > 0 /\ a.vservers # <<>>
    THEN [a EXCEPT !.pc = "vserver", !.k = 1]
    ELSE [a EXCEPT !.pc = "done"]

\* if need_cluster > 0: the slice, addClusterIPs and its activity
AlCluster ==
    /\ op = "add_nodes addresses"
    /\ al.pc = "cluster"
    /\ IF al.need_cluster = 0 THEN al' = after_cluster(al)
       ELSE IF ~al.bound THEN al' = al_raise(al, "UnboundLocalError")
       ELSE \/ al' = after_cluster(hand(al, <<"cluster", 0>>,
                                       al.need_cluster))
            \/ al' = al_raise([al EXCEPT !.avail_ips =
                                    drop(al.avail_ips, al.need_cluster)],
                              "ConfigurationException")
    /\ UNCHANGED <<op, now, pcall, hc, nj, act, cr, an, lc, ld, cf, vn, ex, xr, rn>>

\* the next vserver of the listing, or the end of the loop
after_vserver(a) ==
    IF a.k < Len(a.vservers) THEN [a EXCEPT !.k = a.k + 1]
    ELSE [a EXCEPT !.pc = "done"]

\* one turn of `for vserver in self.xmlrpc().vserver.list()`
AlVserver ==
    /\ op = "add_nodes addresses"
    /\ al.pc = "vserver"
    /\ LET to_add == (al.node_count + al.count) - al.vservers[al.k] IN
       IF to_add < 1 THEN al' = after_vserver(al)
       ELSE IF ~al.bound THEN al' = al_raise(al, "UnboundLocalError")
       ELSE IF take(al.avail_ips, to_add) = <<>>
            THEN al' = al_raise(al, "IndexError")
       ELSE \/ al' = after_vserver(hand(al, <<"vserver", al.k>>, to_add))
            \/ al' = al_raise([al EXCEPT !.avail_ips =
                                    drop(al.avail_ips, to_add)],
                              "ConfigurationException")
    /\ UNCHANGED <<op, now, pcall, hc, nj, act, cr, an, lc, ld, cf, vn, ex, xr, rn>>

AlNext ==
    \/ AlNeed
    \/ AlObtain
    \/ AlPrivate
    \/ AlCluster
    \/ AlVserver

(***************************************************************************)
(* cluster_config: the bootstrap configuration text.  A text is the       *)
(* sequence of the pieces the code concatenates; "\n" is the newline and  *)
(* "" a value that is empty.                                              *)
(***************************************************************************)
CfIdle ==
    [pc |-> "idle", joining |-> FALSE, mgmt_ip |-> "", mgmt_netmask |-> "",
     cluster_ip_start |-> "", cluster_ip_end |-> "", has_nodes |-> FALSE,
     join_mgmt |-> FALSE, dns_servs |-> <<>>, ntp_servs |-> <<>>,
     config |-> <<>>, exc |-> "none"]

CfInit ==
    {[CfIdle EXCEPT !.pc = "cluster_config", !.joining = j, !.mgmt_ip = m,
                    !.mgmt_netmask = k, !.cluster_ip_start = s,
                    !.cluster_ip_end = e, !.has_nodes = n, !.join_mgmt = jm] :
        j \in BOOLEAN, m \in {"", "10.0.0.1"}, k \in {"", "255.255.255.0"},
        s \in {"", "10.0.0.10"}, e \in {"", "10.0.0.20"}, n \in BOOLEAN,
        jm \in BOOLEAN}

\* the servers a backend may report, in order
Servers(prefix) ==
    UNION {[1..n -> {prefix}] : n \in 0..MaxServers}

\* str(idx+1) for idx in range(3)
Digits == <<"1", "2", "3">>

\* if joining: return '# cluster.cfg\n[basic]\njoin cluster={}\nexpiration={}\n'
CfJoining ==
    /\ op = "cluster_config"
    /\ cf.pc = "cluster_config"
    /\ cf.joining
    /\ LET mgmt_ip == IF cf.has_nodes /\ ~cf.join_mgmt THEN "node address"
                      ELSE cf.mgmt_ip
       IN  cf' = [cf EXCEPT !.pc = "returned", !.config =
                    <<"# cluster.cfg", "\n", "[basic]", "\n",
                      "join cluster=", mgmt_ip, "\n",
                      "expiration=", "expiry", "\n">>]
    /\ UNCHANGED <<op, now, pcall, hc, nj, act, cr, an, lc, ld, al, vn, ex, xr, rn>>

\* dns_servs, ntp_servs and router asked of the backend
CfServers ==
    /\ op = "cluster_config"
    /\ cf.pc = "cluster_config"
    /\ ~cf.joining
    /\ \/ cf' = [cf EXCEPT !.pc = "raised", !.exc = "Exception"]
       \/ \E d \in Servers("dns"), n \in Servers("ntp") :
            cf' = [cf EXCEPT !.dns_servs = d, !.ntp_servs = n,
                             !.pc = "required"]
    /\ UNCHANGED <<op, now, pcall, hc, nj, act, cr, an, lc, ld, al, vn, ex, xr, rn>>

\* all([self.mgmt_ip, self.mgmt_netmask, self.cluster_ip_start,
\*      self.cluster_ip_end])
required(c) ==
    /\ c.mgmt_ip # ""
    /\ c.mgmt_netmask # ""
    /\ c.cluster_ip_start # ""
    /\ c.cluster_ip_end # ""

\* if not all([...]): raise vFXTConfigurationException
CfRequired ==
    /\ op = "cluster_config"
    /\ cf.pc = "required"
    /\ cf' = IF required(cf) THEN [cf EXCEPT !.pc = "generate"]
             ELSE [cf EXCEPT !.pc = "raised",
                             !.exc = "ConfigurationException"]
    /\ UNCHANGED <<op, now, pcall, hc, nj, act, cr, an, lc, ld, al, vn, ex, xr, rn>>

\* for idx in range(3): v = servs[idx] if idx < count else '';
\*     config += 'server{}={}\n'.format(idx+1, v)
server_lines(servs) ==
    LET line(idx) == <<"server", Digits[idx], "=",
                       IF idx <= Len(servs) THEN servs[idx] ELSE "", "\n">>
    IN  line(1) \o line(2) \o line(3)

\* the text of a first node
generate(c) ==
    <<"# cluster.cfg",
      "\n", "[basic]",
      "\n", "cluster name=", "name",
      "\n", "password=", "admin password",
      "\n", "expiration=", "expiry",
      "\n", "[management network]",
      "\n", "address=", c.mgmt_ip,
      "\n", "netmask=", c.mgmt_netmask,
      "\n", "default router=", "router",
      "\n", "[cluster network]",
      "\n", "first address=", c.cluster_ip_start,
      "\n", "last address=", c.cluster_ip_end>>
    \o <<"\n", "[dns]", "\n">>
    \o server_lines(c.dns_servs)
    \o <<"domain=", "\n">>
    \o <<"\n", "[ntp]", "\n">>
    \o server_lines(c.ntp_servs)

\* the generation and return config
CfGenerate ==
    /\ op = "cluster_config"
    /\ cf.pc = "generate"
    /\ cf' = [cf EXCEPT !.config = generate(cf), !.pc = "returned"]
    /\ UNCHANGED <<op, now, pcall, hc, nj, act, cr, an, lc, ld, al, vn, ex, xr, rn>>

CfNext ==
    \/ CfJoining
    \/ CfServers
    \/ CfRequired
    \/ CfGenerate

(***************************************************************************)
(* valid_cluster_name.  A name is a sequence of characters.               *)
(***************************************************************************)
VnIdle == [pc |-> "idle", name |-> <<>>, result |-> FALSE]

\* the names tried: every short string over an alphabet with lowercase and
\* uppercase letters, a digit, '-' and the newline, and two long names
VnInit ==
    {[VnIdle EXCEPT !.pc = "valid_cluster_name", !.name = s] :
        s \in UNION {[1..n -> {"a", "z", "A", "0", "-", "\n"}] :
                        n \in 0..MaxNameLen}
              \cup {[i \in 1..NameLimit |-> "a"],
                    [i \in 1..(NameLimit + 1) |-> "a"]}}

\* re.search('^[a-z]([-a-z0-9]*[a-z0-9])?$', name): '$' matches at the end
\* of the string and also just before a newline that ends the string
re_search(name) ==
    LET lower == {"a", "z"}
        inner == lower \cup {"0", "-"}
        upto(n) ==
            /\ n >= 1
            /\ name[1] \in lower
            /\ \A i \in 2..n : name[i] \in inner
            /\ n > 1 => name[n] \in lower \cup {"0"}
    IN  \/ upto(Len(name))
        \/ Len(name) >= 1 /\ name[Len(name)] = "\n" /\ upto(Len(name) - 1)

\* name_len < 1 or name_len > 128: False; the pattern found: True
valid_cluster_name(name) ==
    IF Len(name) < 1 \/ Len(name) > NameLimit THEN FALSE
    ELSE re_search(name)

VnCall ==
    /\ op = "valid_cluster_name"
    /\ vn.pc = "valid_cluster_name"
    /\ vn' = [vn EXCEPT !.result = valid_cluster_name(vn.name),
                        !.pc = "returned"]
    /\ UNCHANGED <<op, now, pcall, hc, nj, act, cr, an, lc, ld, al, cf, ex, xr, rn>>

(***************************************************************************)
(* export and the constructor called on the exported mapping.  A node     *)
(* handle is a record with its instance id; instance ids are positive and *)
(* 0 stands for None.                                                     *)
(***************************************************************************)
ExIdle ==
    [pc |-> "idle", name |-> "None", mgmt_ip |-> "None",
     admin_password |-> "None", nodes |-> <<>>, on |-> FALSE, present |-> {},
     options |-> [name |-> "None", mgmt_ip |-> "None",
                  admin_password |-> "None", nodes |-> <<>>],
     built |-> [name |-> "None", mgmt_ip |-> "None",
                admin_password |-> "None", nodes |-> <<>>],
     loaded |-> FALSE, exc |-> "none"]

\* the cluster objects exported: any fields, node handles with distinct
\* instance ids, `on` whether all nodes are on when the handle is rebuilt,
\* `present` the instances the backend then still has
ExInit ==
    {[ExIdle EXCEPT !.pc = "export", !.name = n, !.mgmt_ip = m,
                    !.admin_password = pw, !.on = o, !.present = p,
                    !.nodes = [i \in DOMAIN ids |-> [instance_id |-> ids[i]]]] :
        n \in {"None", "cluster"}, m \in {"None", "10.0.0.1"},
        pw \in {"None", "secret"}, o \in BOOLEAN, p \in SUBSET (1..MaxIds),
        ids \in {s \in UNION {[1..k -> 1..MaxIds] : k \in 0..MaxIds} :
                    \A i \in DOMAIN s, j \in DOMAIN s : i # j => s[i] # s[j]}}

\* return {'name': ..., 'mgmt_ip': ..., 'admin_password': ...,
\*         'nodes': [n.instance_id for n in self.nodes]}
export(c) ==
    [name |-> c.name, mgmt_ip |-> c.mgmt_ip,
     admin_password |-> c.admin_password,
     nodes |-> [i \in DOMAIN c.nodes |-> c.nodes[i].instance_id]]

ExExport ==
    /\ op = "export"
    /\ ex.pc = "export"
    /\ ex' = [ex EXCEPT !.options = export(ex), !.pc = "__init__"]
    /\ UNCHANGED <<op, now, pcall, hc, nj, act, cr, an, lc, ld, al, cf, vn, xr, rn>>

\* service.get_instance(node_id): the instance of that id, or None
get_instance(node_id, present) ==
    [instance_id |-> IF node_id \in present THEN node_id ELSE 0]

\* the lookup loop with the ids that are not found passed over
resolve_found(node_ids, present) ==
    [raised |-> FALSE,
     nodes |-> SelectSeq([i \in DOMAIN node_ids |->
                              get_instance(node_ids[i], present)],
                         LAMBDA n : n.instance_id # 0)]

\* for node_id in self.nodes: instance = service.get_instance(node_id);
\*     if not instance: raise vFXTConfigurationException;
\*     instances.append(ServiceInstance(service, instance))
resolve(node_ids, present) ==
    LET instances == [i \in DOMAIN node_ids |->
                          get_instance(node_ids[i], present)]
    IN  [raised |-> \E i \in DOMAIN instances : instances[i].instance_id = 0,
         nodes |-> instances]

\* Cluster(service, **options): the fields, the node lookup, and
\* load_cluster_information when the address, the password and nodes that
\* are on are there
ExConstruct ==
    /\ op = "export"
    /\ ex.pc = "__init__"
    /\ LET r == resolve(ex.options.nodes, ex.present)
           b == [ex.options EXCEPT !.nodes = r.nodes]
       IN  IF r.raised
           THEN ex' = [ex EXCEPT !.pc = "raised",
                                 !.exc = "ConfigurationException"]
           ELSE IF /\ b.mgmt_ip # "None" /\ b.admin_password # "None"
                   /\ b.nodes # <<>> /\ ex.on
           THEN \/ ex' = [ex EXCEPT !.pc = "raised",
                                    !.exc = "ConnectionFailure"]
                \/ \E n \in {"cluster", "renamed"} :
                    ex' = [ex EXCEPT !.built = [b EXCEPT !.name = n],
                                     !.loaded = TRUE, !.pc = "returned"]
           ELSE ex' = [ex EXCEPT !.built = b, !.pc = "returned"]
    /\ UNCHANGED <<op, now, pcall, hc, nj, act, cr, an, lc, ld, al, cf, vn, xr, rn>>

ExNext ==
    \/ ExExport
    \/ ExConstruct

(***************************************************************************)
(* xmlrpc(retries, password): the connection to the management channel.   *)
(***************************************************************************)
XrIdle ==
    [pc |-> "idle", mgmt_ip |-> FALSE, has_nodes |-> FALSE,
     admin_password |-> FALSE, password |-> FALSE, R |-> 1, retries |-> 1,
     round |-> 0, addrs |-> <<>>, i |-> 1, attempts |-> <<>>, exc |-> "none"]

XrInit ==
    {[XrIdle EXCEPT !.pc = "xmlrpc", !.mgmt_ip = m, !.has_nodes = n,
                    !.admin_password = a, !.password = p, !.R = r,
                    !.retries = r] :
        m \in BOOLEAN, n \in BOOLEAN, a \in BOOLEAN, p \in BOOLEAN,
        r \in 0..MaxRetries}

\* the two tests before the loop, and addrs
XrStart ==
    /\ op = "xmlrpc"
    /\ xr.pc = "xmlrpc"
    /\ xr' = IF ~xr.mgmt_ip \/ ~(xr.password \/ xr.admin_password)
             THEN [xr EXCEPT !.pc = "raised", !.exc = "ConnectionFailure"]
             ELSE [xr EXCEPT !.pc = "login",
                             !.addrs = IF xr.has_nodes
                                       THEN <<"mgmt_ip", "nodes[0].ip()">>
                                       ELSE <<"mgmt_ip">>]
    /\ UNCHANGED <<op, now, pcall, hc, nj, act, cr, an, lc, ld, al, cf, vn, ex, rn>>

\* one turn of `for addr in addrs`: the client and system.login, which uses
\* self.admin_password whatever password was passed; except Exception:
\* if retries == 0: raise vFXTConnectionFailure.  After the last address:
\* retries -= 1; self._sleep()
XrLogin ==
    /\ op = "xmlrpc"
    /\ xr.pc = "login"
    /\ \E accepted \in {x \in BOOLEAN : x => xr.admin_password} :
        LET x == [xr EXCEPT !.attempts =
                        Append(xr.attempts, <<xr.round, xr.addrs[xr.i]>>)]
        IN  xr' = IF accepted THEN [x EXCEPT !.pc = "returned"]
                  ELSE IF xr.retries = 0
                  THEN [x EXCEPT !.pc = "raised",
                                 !.exc = "ConnectionFailure"]
                  ELSE IF xr.i < Len(xr.addrs) THEN [x EXCEPT !.i = xr.i + 1]
                  ELSE [x EXCEPT !.i = 1, !.retries = xr.retries - 1,
                                 !.round = xr.round + 1]
    /\ UNCHANGED <<op, now, pcall, hc, nj, act, cr, an, lc, ld, al, cf, vn, ex, rn>>

XrNext ==
    \/ XrStart
    \/ XrLogin

(***************************************************************************)
(* set_node_naming_policy(): two passes over the remote nodes.  Remote     *)
(* node i has the primary cluster address i and the id <<"id", i>>; the    *)
(* backing instance at address i, when there is one, is named              *)
(* <<"name", i>>.                                                          *)
(***************************************************************************)
NpNodes == 1..MaxRenamed
NpOrders == {o \in [NpNodes -> NpNodes] : \A i, j \in NpNodes : o[i] = o[j] => i = j}

NpIdle ==
    [pc |-> "idle", nodes |-> {}, names |-> <<>>, R |-> 0, retries |-> 0,
     errors |-> 0, gave_up |-> FALSE, onto_held |-> FALSE, renames |-> 0]

\* self.nodes (the addresses that have a backing instance) and the names the
\* remote nodes carry at the call: an instance name or the node's own id,
\* no name twice
NpInit ==
    {[NpIdle EXCEPT !.pc = "start", !.nodes = m, !.names = nm, !.R = r] :
        m \in SUBSET NpNodes,
        nm \in {f \in [NpNodes -> ({"name"} \X NpNodes) \cup ({"id"} \X NpNodes)] :
                   /\ \A i \in NpNodes : f[i][1] = "id" => f[i][2] = i
                   /\ \A i, j \in NpNodes : f[i] = f[j] => i = j},
        r \in 0..MaxRpcRetries}

\* if not self.nodes: return; node_ip_map = {...}; retries = XMLRPC_RETRIES
NpStart ==
    /\ op = "set_node_naming_policy"
    /\ rn.pc = "start"
    /\ rn' = IF rn.nodes = {}
             THEN [rn EXCEPT !.pc = "returned"]
             ELSE [rn EXCEPT !.pc = "first", !.retries = rn.R]
    /\ UNCHANGED <<op, now, pcall, hc, nj, act, cr, an, lc, ld, al, cf, vn, ex, xr>>

\* the for loop of one pass over the first k nodes of the listing `order`,
\* with node_names as listed before the loop: the state after it as
\* [names, onto_held, renames]
RECURSIVE rename_pass(_, _, _, _, _)
rename_pass(st, pass, order, node_names, k) ==
    IF k = 0 THEN st
    ELSE LET before == rename_pass(st, pass, order, node_names, k - 1)
             i == order[k]
             node_name == <<"name", i>>
             target == IF pass = "first" THEN <<"id", i>> ELSE node_name
             wanted == /\ i \in rn.nodes
                       /\ node_name # before.names[i]
                       /\ IF pass = "first" THEN node_name \in node_names
                                            ELSE node_name \notin node_names
         IN  IF wanted
             THEN [names |-> [before.names EXCEPT ![i] = target],
                   onto_held |-> before.onto_held \/
                       \E j \in NpNodes \ {i} : before.names[j] = target,
                   renames |-> before.renames + 1]
             ELSE before

\* one turn of the while loop of a pass: the listing, the for loop, break;
\* or an exception after k nodes, which ends the pass when retries == 0
NpPass ==
    /\ op = "set_node_naming_policy"
    /\ rn.pc \in {"first", "second"}
    /\ \E order \in NpOrders, k \in 0..MaxRenamed, raised \in BOOLEAN :
        LET node_names == {rn.names[i] : i \in NpNodes}
            st == rename_pass([names |-> rn.names, onto_held |-> rn.onto_held,
                               renames |-> rn.renames],
                              rn.pc, order, node_names, k)
            after == [rn EXCEPT !.names = st.names,
                                !.onto_held = st.onto_held,
                                !.renames = st.renames]
            next == IF rn.pc = "first" THEN "second" ELSE "returned"
        IN  /\ raised \/ k = MaxRenamed
            /\ rn' = IF ~raised
                     THEN [after EXCEPT !.pc = next, !.retries = rn.R]
                     ELSE IF rn.retries = 0
                     THEN [after EXCEPT !.pc = next, !.retries = rn.R,
                                        !.errors = rn.errors + 1,
                                        !.gave_up = TRUE]
                     ELSE [after EXCEPT !.retries = rn.retries - 1,
                                        !.errors = rn.errors + 1]
    /\ UNCHANGED <<op, now, pcall, hc, nj, act, cr, an, lc, ld, al, cf, vn, ex, xr>>

NpNext ==
    \/ NpStart
    \/ NpPass

Init ==
    /\ op \in Ops
    /\ now = 0
    /\ pcall \in (IF op = "parallel_call" THEN PcallInit ELSE {PcallIdle})
    /\ hc \in (IF op = "wait_for_healthcheck" THEN HcInit ELSE {HcIdle})
    /\ nj \in (IF op = "wait_for_nodes_to_join" THEN NjInit ELSE {NjIdle})
    /\ act \in (IF op = "activity" THEN ActInit ELSE {ActIdle})
    /\ cr \in (IF op = "create" THEN CrInit ELSE {CrIdle})
    /\ an \in (IF op = "add_nodes" THEN AnInit ELSE {AnIdle})
    /\ lc \in (IF op \in LcOps THEN LcInit(op) ELSE {LcIdle})
    /\ ld \in (IF op \in LdOps THEN LdInit(op) ELSE {LdIdle})
    /\ al \in (IF op = "add_nodes addresses" THEN AlInit ELSE {AlIdle})
    /\ cf \in (IF op = "cluster_config" THEN CfInit ELSE {CfIdle})
    /\ vn \in (IF op = "valid_cluster_name" THEN VnInit ELSE {VnIdle})
    /\ ex \in (IF op = "export" THEN ExInit ELSE {ExIdle})
    /\ xr \in (IF op = "xmlrpc" THEN XrInit ELSE {XrIdle})
    /\ rn \in (IF op = "set_node_naming_policy" THEN NpInit ELSE {NpIdle})

Next ==
    \/ PcallNext
    \/ HcNext
    \/ NjNext
    \/ ActNext
    \/ CrNext
    \/ AnNext
    \/ LcNext
    \/ LdNext
    \/ AlNext
    \/ CfNext
    \/ VnCall
    \/ ExNext
    \/ XrNext
    \/ NpNext

Spec == Init /\ [][Next]_vars

\* One specification per operation: the calls of that operation alone.
InitParallelCall == Init /\ op = "parallel_call"

SpecParallelCall == InitParallelCall /\ [][PcallNext]_vars

InitHealthcheck == Init /\ op = "wait_for_healthcheck"

SpecHealthcheck == InitHealthcheck /\ [][HcNext]_vars

InitJoin == Init /\ op = "wait_for_nodes_to_join"

SpecJoin == InitJoin /\ [][NjNext]_vars

InitActivity == Init /\ op = "activity"

SpecActivity == InitActivity /\ [][ActNext]_vars

InitCreate == Init /\ op = "create"

SpecCreate == InitCreate /\ [][CrNext]_vars

InitAddNodes == Init /\ op = "add_nodes"

SpecAddNodes == InitAddNodes /\ [][AnNext]_vars

InitLifecycle == Init /\ op \in LcOps

SpecLifecycle == InitLifecycle /\ [][LcNext]_vars

InitLoad == Init /\ op \in LdOps

SpecLoad == InitLoad /\ [][LdNext]_vars

InitAddresses == Init /\ op = "add_nodes addresses"

SpecAddresses == InitAddresses /\ [][AlNext]_vars

InitClusterConfig == Init /\ op = "cluster_config"

SpecClusterConfig == InitClusterConfig /\ [][CfNext]_vars

InitValidName == Init /\ op = "valid_cluster_name"

SpecValidName == InitValidName /\ [][VnCall]_vars

InitExport == Init /\ op = "export"

SpecExport == InitExport /\ [][ExNext]_vars

InitXmlrpc == Init /\ op = "xmlrpc"

SpecXmlrpc == InitXmlrpc /\ [][XrNext]_vars

InitNaming == Init /\ op = "set_node_naming_policy"

SpecNaming == InitNaming /\ [][NpNext]_vars

----------------------------------------------------------------------------
PcallEnded == pcall.main \in {"returned", "raised"}

PcallUsed == 1..pcall.n

SeqRange(s) == {s[x] : x \in 1..Len(s)}

\* C1: when parallel_call has returned or raised, the operation was invoked
\* on every node handed to it and every one of those invocations has run to
\* its end (returned or raised), whichever of them raised and however the
\* workers were interleaved.
C1_AllInvokedAndFinished ==
    PcallEnded =>
        \A k \in PcallUsed :
            pcall.thread[k] = "done" /\ pcall.outcome[k] \in {"ok", "raised"}

\* Four nodes: nodes 2 and 4 raised, nodes 1 and 3 ran to completion, and the
\* call has raised.
C1_Witness ==
    /\ pcall.n = 4
    /\ pcall.main = "raised"
    /\ \A k \in 1..4 : pcall.thread[k] = "done"
    /\ pcall.outcome[1] = "ok" /\ pcall.outcome[2] = "raised"
    /\ pcall.outcome[3] = "ok" /\ pcall.outcome[4] = "raised"

\* C2: parallel_call raises (one vFXTServiceFailure) exactly when some
\* invocation raised and returns normally exactly when none did; the list it
\* carries holds one entry per failing node, none lost and none duplicated.
C2_OneEntryPerFailure ==
    PcallEnded =>
        LET raisedSet == {k \in PcallUsed : pcall.outcome[k] = "raised"} IN
        /\ (pcall.main = "raised") <=> (raisedSet # {})
        /\ (pcall.main = "returned") <=> (raisedSet = {})
        /\ SeqRange(pcall.failed) = raisedSet
        /\ Len(pcall.failed) = Cardinality(raisedSet)

\* Of four nodes, 2 and 4 failed and node 4 wrote its entry first; the raised
\* failure carries exactly these two entries.
C2_Witness ==
    /\ pcall.n = 4
    /\ pcall.main = "raised"
    /\ pcall.failed = <<4, 2>>
    /\ pcall.outcome[1] = "ok" /\ pcall.outcome[3] = "ok"

----------------------------------------------------------------------------
\* C3: wait_for_healthcheck returns normally only once the severity has been
\* observed acceptable continuously for at least `duration` seconds: the run
\* of holding polls that ends in the return spans at least `duration`.
C3_ObservedContinuouslyForDuration ==
    hc.pc = "returned" =>
        /\ hc.firstHold >= 0
        /\ now - hc.firstHold >= hc.duration

\* C4: the time counted toward `duration` is the time since the condition
\* first started holding in the current run of holding polls, so for
\* duration >= 1 the check never succeeds on a single acceptable observation.
C4_CountedFromFirstHold ==
    /\ (hc.pc \in {"retry", "returned"} /\ hc.holdRun > 0) =>
            hc.observed = now - hc.firstHold
    /\ (hc.pc = "returned" /\ hc.duration >= 1) => hc.holdRun >= 2

\* C5: for any retry budget R >= 0 the loop stops once the budget is used up
\* (never more than max(R, 1) polls), and what it then surfaces is a
\* vFXTStatusFailure raised after exactly one alert.conditions query.
C5_ExhaustionIsStatusFailure ==
    /\ hc.iter <= Max(hc.R, 1)
    /\ (hc.pc = "raised" /\ hc.iter > 0) =>
            (hc.exc = "StatusFailure" /\ hc.diag = 1)

----------------------------------------------------------------------------
\* C6: in the two waits a management-channel call that fails during a poll
\* iteration (the periodic condition logging and the initial node-count query
\* included) never aborts the wait and is never surfaced: the only failure a
\* wait surfaces is its own timeout, and a failed query counts as "not yet
\* observed", never as the condition being met.
C6_PollFailuresAbsorbed ==
    /\ nj.pc = "raised" => nj.exc = "ConfigurationException"
    /\ (hc.pc = "raised" /\ hc.iter > 0) => hc.exc = "StatusFailure"
    /\ nj.pc = "returned" => ~nj.queryFailed
    /\ hc.pc = "returned" => hc.alertstats # "failed"

\* C7: wait_for_nodes_to_join(retries=R) aborts on elapsed time only once the
\* time elapsed since the wait began exceeds R * 1.5 seconds.
C7_NoEarlyWallClockAbort ==
    (nj.pc = "raised" /\ nj.cause = "taking too long") =>
        2 * (now - nj.began) > 3 * nj.R

\* C8: every iteration of the join wait that does not leave the loop consumes
\* one retry, so the loop makes at most R + 1 polls whatever the remote
\* answers are.
C8_BoundedPolls ==
    nj.iter <= nj.R + 1

----------------------------------------------------------------------------
\* C9: an activity poll ends as soon as getActivity reports state 'success'
\* (it returns) or state 'failure' (it ends in a failure), whatever the status
\* text is; a token equal to "success" causes no getActivity call.
C9_PollEndsOnTerminalState ==
    /\ act.response.state = "success" => act.pc = "done"
    /\ act.response.state = "failure" =>
            (act.pc = "raised" \/ (act.pc = "done" /\ act.logged))
    /\ act.activity = "success" => (act.calls = 0 /\ act.pc = "done")

----------------------------------------------------------------------------
Called(what) == \E x \in 1..Len(cr.calls) : cr.calls[x] = what

\* C10: when create surfaces the failure of a phase (provisioning, service
\* checks, join wait, health check, disabling joins, naming, enabling HA),
\* destroy has been called if skip_cleanup is not set; if it is set, destroy
\* has not been called and telemetry has.
C10_FailureTriggersCleanup ==
    (cr.pc = "raised" /\ cr.failed # "validate") =>
        IF cr.skip_cleanup
        THEN ~Called("destroy") /\ Called("telemetry")
        ELSE Called("destroy")

----------------------------------------------------------------------------
\* C11: while create or add_nodes unwinds a failure, an error raised by the
\* rollback (the destroy fan-out, the address reversal, the reload of the
\* membership) or by the telemetry report never replaces the original
\* failure: the caller receives the original error or a CreateFailure that
\* wraps it.
C11_RollbackNeverMasks ==
    /\ (cr.pc = "raised" /\ cr.failed \notin {"none", "validate"}) =>
            cr.exc \in {cr.err, "CreateFailure"}
    /\ (an.pc = "raised" /\ an.failed # "none") => an.exc = "CreateFailure"

\* C12: whichever phase failed (service checks, join wait, health check,
\* finalizing), what create or add_nodes raises once its rollback or its
\* telemetry report has returned is a vFXTCreateFailure wrapping the cause.
C12_SurfacedAsCreateFailure ==
    /\ (/\ cr.pc = "raised"
        /\ cr.failed \in SeqRange(Phases)
        /\ cr.exc \in {cr.err, "CreateFailure"}) => cr.exc = "CreateFailure"
    /\ (/\ an.pc = "raised"
        /\ an.failed # "none"
        /\ an.at \in {"telemetry", "disable"}
        /\ an.exc \notin {"StatusFailure", "allow_node_join failed"}) =>
            an.exc = "CreateFailure"

----------------------------------------------------------------------------
\* the steps create has called when it returns a cluster of `size` nodes
CreateOrder(size) ==
    <<"create_cluster">> \o
    (IF size > 1 THEN Phases ELSE SubSeq(Phases, 1, Len(Phases) - 1))

\* C13: create runs its phases in the fixed order provisioning, service
\* checks, join wait, health check, disable joins, naming policy, enable HA;
\* when it returns a cluster the last join-policy setting sent is 'no', the
\* health check had succeeded before joins were disabled, and enable_ha was
\* invoked if and only if the cluster has more than one node.
C13_PhaseOrder ==
    /\ \E k \in 0..Len(CreateOrder(MaxCluster)) :
            \/ cr.calls = SubSeq(CreateOrder(MaxCluster), 1, k)
            \/ /\ k > 0
               /\ cr.calls = Append(SubSeq(CreateOrder(MaxCluster), 1, k),
                                    "destroy")
            \/ /\ k > 0
               /\ cr.calls = Append(SubSeq(CreateOrder(MaxCluster), 1, k),
                                    "telemetry")
    /\ cr.pc = "returned" =>
            /\ cr.calls = CreateOrder(cr.size)
            /\ cr.sent # <<>> /\ cr.sent[Len(cr.sent)] = "no"
            /\ Called("enable_ha") <=> cr.size > 1

\* A three-node cluster has been returned after enable_ha was called.
C13_Witness ==
    /\ cr.pc = "returned"
    /\ cr.size = 3
    /\ cr.calls[Len(cr.calls)] = "enable_ha"
    /\ cr.sent = <<"no">>

\* C14: create with an empty or invalid name, or with a requested management
\* address that the backend reports in use, raises
\* vFXTConfigurationException before any provisioning call: nothing has been
\* created and nothing is torn down.
C14_ValidationBeforeProvisioning ==
    (cr.name # "valid" \/ cr.management_address = "in use") =>
        /\ cr.calls = <<>>
        /\ cr.pc \in {"idle", "validate", "raised"}
        /\ cr.pc = "raised" => cr.exc = "ConfigurationException"

\* A valid name with a management address already in use has been rejected.
C14_Witness ==
    /\ cr.pc = "raised"
    /\ cr.name = "valid"
    /\ cr.management_address = "in use"
    /\ cr.exc = "ConfigurationException"
    /\ cr.calls = <<>>

----------------------------------------------------------------------------
\* C15: add_nodes(count) with node_count + count above the licensed maximum
\* the remote reports raises vFXTConfigurationException from the license
\* test, asked once, before any range is extended, joins are enabled or an
\* instance is provisioned; at or below the maximum the test never rejects.
C15_LicenseCeiling ==
    /\ (an.licensed > 0 /\ an.node_count + an.count > an.licensed) =>
            /\ an.pc = "raised"
            /\ an.at = "license"
            /\ an.exc = "ConfigurationException"
            /\ an.added = <<>> /\ an.ranges = {}
            /\ an.sent = <<>>
            /\ an.nodes = 1..an.node_count
    /\ (an.licensed > 0 /\ an.node_count + an.count <= an.licensed) =>
            an.at # "license"

\* Two nodes, one more asked for, a licensed maximum of two: rejected.
C15_Witness ==
    /\ an.pc = "raised"
    /\ an.at = "license"
    /\ an.node_count = 2 /\ an.count = 1 /\ an.licensed = 2
    /\ an.exc = "ConfigurationException"

Last(seq) == seq[Len(seq)]

\* C16: whenever add_nodes raises from a step that follows the enabling of
\* joins (allow_node_join() had returned), the last join-policy setting sent
\* before the error reaches the caller is 'no', on every failure path.
C16_JoinsDisabledOnFailure ==
    (an.pc = "raised" /\ an.failed \notin {"none", "allow_node_join"}) =>
        Last(an.sent) = "no"

\* C17: when add_nodes fails with none of the requested nodes joined and
\* cleanup not suppressed, and no reversal reported an error, every range
\* applied during the call has been removed again.
C17_RollbackTotality ==
    (/\ an.pc = "raised"
     /\ ~an.skip_cleanup
     /\ an.exc = "CreateFailure"
     /\ an.none_joined
     /\ an.undo_errors = 0) => an.ranges = {}

\* the place of a range in the order the ranges were applied
Applied(r) == CHOOSE x \in 1..Len(an.added) : an.added[x] = r

\* C18: the recorded extensions are reversed in reverse application order
\* (the last range applied is removed first), and a removal has ended
\* before the next one starts.
C18_ReverseOrderUndo ==
    /\ \A x, y \in 1..Len(an.removals) :
            (x < y /\ an.removals[x][1] = "start"
                   /\ an.removals[y][1] = "start") =>
                Applied(an.removals[x][2]) > Applied(an.removals[y][2])
    /\ \A x \in 1..(Len(an.removals) - 1) :
            an.removals[x][1] = "start" =>
                an.removals[x + 1] = <<"end", an.removals[x][2]>>

\* C19: during the rollback a failing reversal is only logged: the loop
\* still goes through every recorded range, joins are still disabled and
\* the caller still receives the CreateFailure.
C19_ReversalFailuresLogged ==
    (an.pc = "raised" /\ an.k > 0) =>
        /\ an.at = "disable"
        /\ an.k = Len(an.added)
        /\ an.exc = "CreateFailure" => Last(an.sent) = "no"

\* C20: the nodes the reconciler hands to the destroy fan-out are exactly
\* those of the symmetric difference of the expected and the joined ids
\* whose address is not listed as joining, destroy is called only when that
\* set is not empty, and so a node that is joining is never destroyed.
C20_ReconcilerTargets ==
    [][/\ an.pc = "destroy" =>
            /\ an.targets =
                 {n \in NodeIds :
                     /\ (n \in an.expected) # (n \in an.joined)
                     /\ n \notin an.joining}
            /\ an'.destroy_called <=> an.targets # {}
       /\ an.pc # "destroy" => an'.destroy_called = an.destroy_called]_vars

\* One node, two asked for: node 3 never joined, node 2 is joining, and the
\* reconciler is about to destroy node 3 alone.
C20_Witness ==
    /\ an.pc = "destroy"
    /\ an.expected = {1, 2, 3}
    /\ an.joined = {1}
    /\ an.joining = {2}
    /\ an.targets = {3}

----------------------------------------------------------------------------
\* the places of a call in the list of calls made
At(what) == {x \in 1..Len(lc.calls) : lc.calls[x] = what}

\* every call `first` was made before every call `then`, and there is one
Before(first, then) ==
    /\ At(first) # {}
    /\ \A x \in At(first), y \in At(then) : x < y

LcEnded == lc.pc \in {"returned", "raised"}

\* the tests of stop for a graceful shutdown, on the cluster as it was
GracefulPossible ==
    lc.admin_password /\ is_on(lc.began) /\ lc.can_stop

\* C21: in a graceful stop no node's stop is issued before cluster.powerdown
\* returned success and the cluster was then seen not to be on; when stop
\* returns the per-node stop was fanned out to every node and the node state
\* refreshed afterwards; and the wait for the cluster to go offline ends in
\* vFXTStatusFailure once `retries` polls have been made.
C21_GracefulStop ==
    op = "stop" =>
        /\ (lc.clean_stop /\ GracefulPossible /\ At("stop") # {}) =>
                Before("powerdown", "offline") /\ Before("offline", "stop")
        /\ lc.pc = "returned" =>
                /\ Len(lc.calls) >= 2
                /\ SubSeq(lc.calls, Len(lc.calls) - 1, Len(lc.calls))
                        = <<"stop", "refresh">>
                /\ \A k \in DOMAIN lc.status : lc.status[k] = "off"
        /\ lc.polls <= Max(lc.R, 1)
        /\ (lc.pc = "raised" /\ lc.polls > 0) => lc.exc = "StatusFailure"

\* C22 as stated: when a graceful shutdown is not possible (no credential,
\* nodes not all on, or a node that does not permit stopping) stop issues no
\* powerdown and stops the instances through the per-node fan-out.
C22_DirectStopWhenNotGraceful ==
    (op = "stop" /\ ~GracefulPossible) =>
        /\ At("powerdown") = {} /\ At("powerdown refused") = {}
        /\ LcEnded => At("stop") # {}

\* C22 amended: without the credential or with nodes that are not all on,
\* stop issues no powerdown and goes to the per-node fan-out at once; with
\* the credential and all nodes on, a node that does not permit stopping
\* makes a clean stop raise vFXTConfigurationException with no powerdown
\* and no node stopped.
C22_DirectStopOrRefusal ==
    (op = "stop" /\ ~GracefulPossible) =>
        /\ At("powerdown") = {} /\ At("powerdown refused") = {}
        /\ (lc.clean_stop /\ lc.admin_password /\ is_on(lc.began)) =>
                /\ lc.calls = <<>>
                /\ lc.pc \in {"stop", "raised"}
                /\ lc.pc = "raised" => lc.exc = "ConfigurationException"
        /\ ~(lc.clean_stop /\ lc.admin_password /\ is_on(lc.began)) =>
                /\ lc.pc \in {"stop", "fanout_stop", "returned", "raised"}
                /\ LcEnded => lc.calls[1] = "stop"

\* Two nodes that are on, the credential present, stopping not permitted:
\* the clean stop has been refused with nothing called.
C22_Witness ==
    /\ op = "stop"
    /\ lc.pc = "raised"
    /\ lc.exc = "ConfigurationException"
    /\ lc.admin_password /\ lc.clean_stop /\ ~lc.can_stop
    /\ lc.began = <<"on", "on">>
    /\ lc.calls = <<>>

\* the preconditions of shelve, on the cluster as it was
ShelvePossible ==
    lc.admin_password /\ is_on(lc.began) /\ lc.can_shelve

\* C23 as stated: the per-node shelve is fanned out only after the
\* preconditions held, the notification was accepted or rejected with fault
\* 108 only, and a clean stop completed; a failed precondition raises
\* vFXTConfigurationException with no node stopped or shelved, and any other
\* fault aborts the shelve before any node is stopped.
C23_ShelveOrder ==
    op = "shelve" =>
        /\ At("shelve") # {} =>
                /\ ShelvePossible
                /\ lc.notified \in {"accepted", "not supported"}
                /\ Before("powerdown", "offline") /\ Before("offline", "stop")
                /\ Before("stop", "shelve")
        /\ (~ShelvePossible /\ lc.pc # "shelve") =>
                /\ lc.pc = "raised" /\ lc.exc = "ConfigurationException"
                /\ lc.calls = <<>>
        /\ lc.exc = "Fault" => lc.calls = <<>>

\* C23 amended: as stated, except that the stop that precedes the fan-out
\* is a clean stop only if the caller did not pass clean_stop=False; with
\* clean_stop=False the nodes are stopped through the fan-out directly.
C23_ShelveOrderUnlessUnclean ==
    op = "shelve" =>
        /\ At("shelve") # {} =>
                /\ ShelvePossible
                /\ lc.notified \in {"accepted", "not supported"}
                /\ lc.clean_stop =>
                        /\ Before("powerdown", "offline")
                        /\ Before("offline", "stop")
                /\ ~lc.clean_stop => At("powerdown") = {}
                /\ Before("stop", "shelve")
        /\ (~ShelvePossible /\ lc.pc # "shelve") =>
                /\ lc.pc = "raised" /\ lc.exc = "ConfigurationException"
                /\ lc.calls = <<>>
        /\ lc.exc = "Fault" => lc.calls = <<>>

\* A two-node cluster has been shelved after setShelve was answered with
\* fault 108 and a clean stop.
C23_Witness ==
    /\ op = "shelve"
    /\ lc.pc = "returned"
    /\ lc.notified = "not supported"
    /\ lc.calls = <<"powerdown", "offline", "stop", "refresh", "shelve",
                    "refresh">>
    /\ lc.status = <<"shelved", "shelved">>

\* C24: shelve is allowed from the STOPPED state (all nodes off, none
\* shelved) and leaves the cluster SHELVED; unshelve leaves no node of a
\* SHELVED cluster shelved; a destroyed cluster has every node destroyed.
C24_ShelveFromStopped ==
    /\ (/\ op = "shelve"
        /\ is_off(lc.began) /\ \A k \in DOMAIN lc.began : lc.began[k] = "off"
        /\ lc.admin_password /\ lc.can_shelve /\ lc.can_stop
        /\ LcEnded) =>
            \/ lc.pc = "returned" /\ is_shelved(lc.status)
            \/ lc.pc = "raised" /\ lc.exc = "ServiceFailure"
    /\ (op = "unshelve" /\ is_shelved(lc.began) /\ lc.pc = "returned") =>
            \A k \in DOMAIN lc.status : lc.status[k] # "shelved"
    /\ (op = "destroy" /\ lc.pc = "returned") =>
            \A k \in DOMAIN lc.status : lc.status[k] = "destroyed"

\* C25: destroy proceeds in the order bucket collection, per-node destroy,
\* bucket deletion, post-destroy cleanup; a failed collection never prevents
\* the node destroy, a failed bucket deletion never prevents the remaining
\* deletions or the cleanup, and no bucket is deleted unless remove_buckets
\* was asked for, and none before the fan-out has ended.
C25_DestroyOrder ==
    op = "destroy" =>
        /\ At("collect") \subseteq {1}
        /\ At("collect") # {} <=> (lc.remove_buckets /\ lc.pc # "collect")
        /\ At("delete_bucket") # {} =>
                lc.remove_buckets /\ Before("destroy", "delete_bucket")
        /\ At("post_destroy_cluster") # {} =>
                /\ At("post_destroy_cluster") = {Len(lc.calls)}
                /\ Cardinality(At("delete_bucket")) = lc.buckets
                /\ Before("destroy", "post_destroy_cluster")
        /\ lc.pc = "raised" =>
                \/ lc.exc = "ServiceFailure" /\ At("destroy") = {Len(lc.calls)}
                \/ At("post_destroy_cluster") # {}
        /\ lc.pc = "returned" => At("post_destroy_cluster") # {}

\* Two buckets were collected and both deletions were attempted between
\* the node destroy and the cleanup.
C25_Witness ==
    /\ op = "destroy"
    /\ lc.pc = "returned"
    /\ lc.buckets = 2
    /\ lc.calls = <<"collect", "destroy", "delete_bucket", "delete_bucket",
                    "post_destroy_cluster">>

\* the caller is past the place where it calls load_cluster_information
LdPastCall ==
    ld.pc \notin {"load", "reload", "__init__", "load_cluster_information"}

\* C26: load_cluster_information returns normally only with a node list that
\* is not empty and as long as the node count the management channel
\* reported, and raises otherwise; load always goes through it, reload does
\* when the cluster is on, the constructor does when it has the address, the
\* credential and nodes that are on; so add_nodes goes on from a cluster
\* that was on only with a membership that matches the remote count.
C26_LoadedMeansCounted ==
    op \in LdOps =>
        /\ ld.loaded => (ld.nodes > 0 /\ ld.nodes = ld.expected)
        /\ (ld.entered /\ ld.pc \in {"returned", "proceeds"}) => ld.loaded
        /\ (op = "load" /\ LdPastCall) => ld.entered
        /\ (op = "reload" /\ ld.was_on /\ LdPastCall) => ld.entered
        /\ (/\ op = "__init__"
            /\ ld.mgmt_ip /\ ld.admin_password /\ ld.began > 0 /\ ld.was_on
            /\ LdPastCall) => ld.entered
        /\ (ld.pc = "proceeds" /\ ld.was_on) =>
                (ld.nodes > 0 /\ ld.nodes = ld.expected)

\* add_nodes goes on after its reload found the cluster, held with one
\* node, to have two, as the management channel reported.
C26_Witness ==
    /\ op = "reload"
    /\ ld.caller = "add_nodes"
    /\ ld.pc = "proceeds"
    /\ ld.was_on
    /\ ld.began = 1
    /\ ld.nodes = 2
    /\ ld.expected = 2

\* the sizes of add_nodes have been computed
AlSized ==
    al.pc \in {"obtain", "private", "cluster", "vserver", "done"}
        \/ al.ip_count > 0

\* C27: need_cluster = max(0, (current_nodes + added) * cluster_ips_per_node
\* - in_use_cluster_addresses), need_vserver likewise over the vservers,
\* need_private = added if the backend allocates private addresses and 0
\* otherwise; the backend is asked for need_vserver + need_cluster +
\* need_private addresses; with a sum of 0 nothing is asked for and no range
\* is applied; 3 nodes, 2 added, 2 per node and 4 in use need 6.
C27_AddressMath ==
    /\ need((3 + 2) * 2, 4) = 6
    /\ op = "add_nodes addresses" =>
        LET total == al.node_count + al.count IN
        /\ AlSized =>
            /\ al.need_cluster
                    = Max(0, total * al.per_node - al.existing_cluster)
            /\ al.need_vserver
                    = Max(0, total * Len(al.vservers) - Sum(al.vservers))
            /\ al.need_private = (IF al.private THEN al.count ELSE 0)
            /\ al.ip_count
                    = al.need_vserver + al.need_cluster + al.need_private
        /\ al.requested # -1 =>
                al.requested
                    = al.need_vserver + al.need_cluster + al.need_private
        /\ (al.custom = 0 /\ al.pc \in {"private", "cluster", "vserver"}) =>
                al.requested # -1
        /\ (AlSized /\ al.ip_count = 0) =>
                al.requested = -1 /\ al.applied = <<>> /\ al.pc = "done"

\* One node and one added, the cluster range already larger than needed,
\* one vserver short of an address, private addresses allocated: two
\* addresses were asked of the backend.
C27_Witness ==
    /\ op = "add_nodes addresses"
    /\ al.pc = "done"
    /\ al.node_count = 1 /\ al.count = 1 /\ al.per_node = 1
    /\ al.existing_cluster = 3
    /\ al.need_cluster = 0
    /\ al.need_vserver = 1
    /\ al.need_private = 1
    /\ al.requested = 2
    /\ Len(al.applied) = 2

\* C28: with address_range_start, address_range_end and
\* address_range_netmask given, a range shorter than required raises
\* vFXTConfigurationException before any range is applied, and a sufficient
\* range is used as given: the backend is not asked for a block, the call
\* does not fail for want of addresses, and what it hands out carries the
\* caller's netmask.
C28_CustomRange ==
    (op = "add_nodes addresses" /\ al.custom > 0 /\ al.ip_count > 0) =>
        /\ al.requested = -1
        /\ al.custom < al.ip_count =>
                /\ al.pc \in {"obtain", "raised"}
                /\ al.applied = <<>>
                /\ al.pc = "raised" =>
                        al.exc \in {"ConfigurationException",
                                    "ConnectionFailure"}
        /\ al.custom >= al.ip_count =>
                /\ al.pc = "raised" =>
                        al.exc \in {"ConfigurationException",
                                    "ConnectionFailure"}
                /\ al.pc = "done" => Len(al.applied) > 0
                /\ \A i \in DOMAIN al.applied :
                        al.applied[i].netmask = "custom"

\* the place of a consumer in the order private, cluster, vservers
Rank(who) ==
    IF who[1] = "private" THEN 0
    ELSE IF who[1] = "cluster" THEN 1 ELSE 1 + who[2]

\* C29: the block is partitioned in the order private, cluster, then each
\* vserver in listing order, the lowest remaining addresses going to the
\* earlier consumer; the ranges handed out in one call are pairwise
\* disjoint, each a contiguous run of the block, and none holds an address
\* that was in use before the call.
C29_Partition ==
    op = "add_nodes addresses" =>
        LET ap == al.applied
            blk == {al.block[i] : i \in DOMAIN al.block}
        IN  /\ \A i \in DOMAIN ap :
                /\ ap[i].firstIP <= ap[i].lastIP
                /\ (ap[i].firstIP)..(ap[i].lastIP) \subseteq blk
                /\ (ap[i].firstIP)..(ap[i].lastIP) \cap al.in_use = {}
                /\ ap[i].firstIP = IF i = 1 THEN al.block[1]
                                   ELSE ap[i - 1].lastIP + 1
            /\ \A i \in DOMAIN ap, j \in DOMAIN ap :
                i < j => /\ Rank(ap[i].who) < Rank(ap[j].who)
                         /\ ap[i].lastIP < ap[j].firstIP

\* One block has been shared among all four consumers of a cluster with two
\* vservers.
C29_Witness ==
    /\ op = "add_nodes addresses"
    /\ al.pc = "done"
    /\ Len(al.applied) = 4
    /\ al.applied[1].who = <<"private", 0>>
    /\ al.applied[2].who = <<"cluster", 0>>
    /\ al.applied[3].who = <<"vserver", 1>>
    /\ al.applied[4].who = <<"vserver", 2>>
    /\ al.applied[4].lastIP - al.applied[4].firstIP >= 1

\* the lines of a text: its pieces split at the newlines, empty values
\* dropped, no line after a final newline
RECURSIVE SplitLines(_, _)
SplitLines(text, line) ==
    IF text = <<>> THEN (IF line = <<>> THEN <<>> ELSE <<line>>)
    ELSE IF Head(text) = "\n" THEN <<line>> \o SplitLines(Tail(text), <<>>)
    ELSE IF Head(text) = "" THEN SplitLines(Tail(text), line)
    ELSE SplitLines(Tail(text), Append(line, Head(text)))

\* the three server lines of a section of the template
TemplateServers(servs) ==
    [i \in 1..3 |-> IF i <= Len(servs)
                    THEN <<"server", Digits[i], "=", servs[i]>>
                    ELSE <<"server", Digits[i], "=">>]

\* the literal bootstrap template, line by line
Template(c) ==
    << <<"# cluster.cfg">>,
       <<"[basic]">>,
       <<"cluster name=", "name">>,
       <<"password=", "admin password">>,
       <<"expiration=", "expiry">>,
       <<"[management network]">>,
       <<"address=", c.mgmt_ip>>,
       <<"netmask=", c.mgmt_netmask>>,
       <<"default router=", "router">>,
       <<"[cluster network]">>,
       <<"first address=", c.cluster_ip_start>>,
       <<"last address=", c.cluster_ip_end>>,
       <<"[dns]">> >>
    \o TemplateServers(c.dns_servs)
    \o << <<"domain=">>, <<"[ntp]">> >>
    \o TemplateServers(c.ntp_servs)

\* C30: for a first node cluster_config returns the literal template line
\* for line, with server1..server3 left empty beyond the servers configured
\* and no other line between the sections; it raises when the management
\* address, the netmask or a bound of the cluster range is missing.
C30_ConfigIsTemplate ==
    (op = "cluster_config" /\ ~cf.joining) =>
        /\ cf.pc = "returned" => SplitLines(cf.config, <<>>) = Template(cf)
        /\ ("" \in {cf.mgmt_ip, cf.mgmt_netmask, cf.cluster_ip_start,
                    cf.cluster_ip_end}) =>
                /\ cf.pc \notin {"generate", "returned"}
                /\ cf.pc = "raised" =>
                        cf.exc \in {"ConfigurationException", "Exception"}

\* the whole of a name matches ^[a-z]([-a-z0-9]*[a-z0-9])?$
WholeNameMatches(s) ==
    /\ Len(s) >= 1
    /\ s[1] \in {"a", "z"}
    /\ \A i \in 1..Len(s) : s[i] \in {"a", "z", "0", "-"}
    /\ s[Len(s)] # "-"

\* C31: valid_cluster_name(s) is true if and only if 1 <= len(s) <= 128 and
\* the whole of s matches ^[a-z]([-a-z0-9]*[a-z0-9])?$.
C31_ValidNameIffMatches ==
    (op = "valid_cluster_name" /\ vn.pc = "returned") =>
        (vn.result <=> (/\ 1 <= Len(vn.name)
                        /\ Len(vn.name) <= 128
                        /\ WholeNameMatches(vn.name)))

\* C32: for an offline cluster c, Cluster(service, **c.export()) has the
\* name, management address and password of c and node handles with the
\* instance ids of c in the same order, each looked up in the backend; if
\* an id cannot be resolved the constructor raises
\* vFXTConfigurationException and builds no partial node list.
C32_ExportRoundTrip ==
    (op = "export" /\ ~ex.on) =>
        /\ ex.pc = "returned" =>
            /\ ex.built.name = ex.name
            /\ ex.built.mgmt_ip = ex.mgmt_ip
            /\ ex.built.admin_password = ex.admin_password
            /\ Len(ex.built.nodes) = Len(ex.nodes)
            /\ \A i \in DOMAIN ex.nodes :
                /\ ex.built.nodes[i].instance_id = ex.nodes[i].instance_id
                /\ ex.nodes[i].instance_id \in ex.present
        /\ (/\ ex.pc \in {"returned", "raised"}
            /\ \E i \in DOMAIN ex.nodes :
                    ex.nodes[i].instance_id \notin ex.present) =>
                /\ ex.pc = "raised"
                /\ ex.exc = "ConfigurationException"
                /\ ex.built.nodes = <<>>

\* A cluster that is off and has two nodes, named and with its address
\* and password, has been rebuilt from its export with both handles.
C32_Witness ==
    /\ op = "export"
    /\ ~ex.on
    /\ ex.pc = "returned"
    /\ ex.name = "cluster" /\ ex.mgmt_ip # "None"
    /\ ex.admin_password # "None"
    /\ Len(ex.nodes) = 2
    /\ ex.built.nodes = <<[instance_id |-> 2], [instance_id |-> 1]>>

\* the steps of the rollback of add_nodes
AnRollback == {"load", "list", "destroy", "lookup", "remove", "poll", "disable"}

\* C33: a phase of create or add_nodes that fails is followed by the same
\* cleanup whether it failed with a KeyboardInterrupt or with an ordinary
\* exception: unless cleanup is suppressed, create has called destroy by
\* the time the error reaches the caller, and add_nodes has entered its
\* rollback; with cleanup suppressed neither destroys anything.
C33_InterruptSameRollback ==
    /\ (/\ op = "create"
        /\ cr.failed \notin {"none", "validate"}
        /\ cr.err \in Errors
        /\ cr.pc = "raised") =>
            (~cr.skip_cleanup <=> \E x \in DOMAIN cr.calls : cr.calls[x] = "destroy")
    /\ (/\ op = "add_nodes"
        /\ an.failed # "none"
        /\ an.err \in Errors
        /\ an.pc \notin {"telemetry"}) =>
            IF an.skip_cleanup THEN an.pc = "raised" /\ ~an.destroy_called
            ELSE an.pc \in AnRollback \/ an.at \in AnRollback
                    \/ an.pc = "raised"

\* C34: xmlrpc(retries=r) ends for every r >= 0; it returns as soon as a
\* candidate address accepts the login; it raises vFXTConnectionFailure
\* only after r retries in which every candidate address (the management
\* address, then the first node's address) was tried in each round; without
\* a management address or without a password it raises
\* vFXTConnectionFailure with no connection attempt.
C34_ConnectOrExhaust ==
    op = "xmlrpc" =>
        /\ Len(xr.attempts) <= (xr.R + 1) * 2
        /\ (~xr.mgmt_ip \/ ~(xr.password \/ xr.admin_password)) =>
                /\ xr.attempts = <<>>
                /\ xr.pc \in {"xmlrpc", "raised"}
        /\ xr.pc = "raised" => xr.exc = "ConnectionFailure"
        /\ (xr.pc = "raised" /\ xr.attempts # <<>>) =>
                \A rd \in 0..xr.R, a \in DOMAIN xr.addrs :
                    \E x \in DOMAIN xr.attempts :
                        xr.attempts[x] = <<rd, xr.addrs[a]>>

\* C35: the one request of add_nodes covers its own partition: the
\* addresses sliced off for the private, cluster and vserver consumers sum
\* to at most the number requested, and every vserver that has fewer
\* addresses than the cluster will have nodes receives a range of exactly
\* the difference.
C35_RequestCoversPartition ==
    (op = "add_nodes addresses" /\ al.custom = 0 /\ al.pc = "done") =>
        LET ap == al.applied
            total == al.node_count + al.count
        IN  /\ Sum([i \in DOMAIN ap |-> ap[i].lastIP - ap[i].firstIP + 1])
                    <= Max(al.requested, 0)
            /\ \A v \in DOMAIN al.vservers :
                    total - al.vservers[v] >= 1 =>
                        \E i \in DOMAIN ap :
                            /\ ap[i].who = <<"vserver", v>>
                            /\ ap[i].lastIP - ap[i].firstIP + 1
                                    = total - al.vservers[v]

\* C36: when add_nodes fails while it is still extending address ranges,
\* after an earlier extension of the same call succeeded, the extensions
\* already applied have been removed by the time the error reaches the
\* caller.
C36_PartialExtensionsReversed ==
    (op = "add_nodes" /\ an.pc = "raised" /\ an.at = "extend") =>
        an.ranges = {}

C37_ReturnMeansReported ==
    (op = "wait_for_nodes_to_join" /\ nj.pc = "returned") =>
        /\ ~nj.queryFailed
        /\ nj.found = nj.expected

\* the scale of the spec: red < yellow < green
SeverityRank(s) == CASE s = "red" -> 0 [] s = "yellow" -> 1 [] s = "green" -> 2

\* C38: a poll of wait_for_healthcheck is accepted exactly when the reply
\* carries a maxCondition severity at least as good as the requested state
\* (green: green; yellow: yellow, green; red: red, yellow, green); a reply
\* without maxCondition is never accepted.
C38_AcceptedIffAtLeastAsGood ==
    (op = "wait_for_healthcheck" /\ hc.iter > 0) =>
        (hc.holdRun > 0 <=>
            /\ hc.alertstats \in Severities
            /\ SeverityRank(hc.alertstats) >= SeverityRank(hc.state))

\* a wait for red that returned on a poll answered yellow
C38_Witness ==
    /\ op = "wait_for_healthcheck"
    /\ hc.state = "red"
    /\ hc.alertstats = "yellow"
    /\ hc.holdRun > 0
    /\ hc.pc = "returned"

\* C40: when set_node_naming_policy has completed and no management call
\* raised, every remote node whose primary cluster address has a backing
\* instance carries that instance's name, and no rename was issued toward a
\* name that another node held at that moment.
C40_NamedAfterInstances ==
    (op = "set_node_naming_policy" /\ rn.pc = "returned"
        /\ rn.nodes # {} /\ rn.errors = 0) =>
        /\ \A i \in rn.nodes : rn.names[i] = <<"name", i>>
        /\ ~rn.onto_held
=============================================================================
